---- MODULE Spec2Model ----
(***************************************************************************)
(* Attendance tracker (bunker.py): the SQLite store of trackers, classes   *)
(* and sessions, the clone-on-first-access model, the session materializer *)
(* and the cascading deletes, as a state machine over the store.           *)
(*                                                                         *)
(* Dates are day numbers, day 0 being a Monday (weekday d = d % 7); an ISO *)
(* date text orders as its day number does.  Every "with conn() as c"      *)
(* block of the source is one SQLite transaction: it commits as a whole or *)
(* rolls back as a whole, and SQLite runs write transactions one at a time.*)
(***************************************************************************)
EXTENDS Integers, Sequences, FiniteSets, TLC

VARIABLES
    db,       \* the store: [trackers, classes, sessions, seq]
    today,    \* date.today()
    pc,       \* per worker, the statement its call is at
    loc,      \* per worker, the locals of its call
    now,      \* datetime.now(IST), in seconds since 00:00 of day 0
    undo_timetable,          \* per browser session, st.session_state.undo_timetable
    last_attendance_action,  \* per browser session, st.session_state.last_attendance_action
    nav       \* per browser session, st.session_state's user_id, active_tracker, tracker_view

vars == <<db, today, pc, loc, now, undo_timetable, last_attendance_action, nav>>

(* What the data layer never touches: the clock and st.session_state. *)
page == <<now, undo_timetable, last_attendance_action, nav>>

----------------------------------------------------------------------------
(* Bounds of the model: how many row ids the AUTOINCREMENT counters of
   trackers, classes and sessions hand out together, in Spec, SpecClone and
   SpecRace. *)
MaxIds == 6
CloneMaxIds == 5
RaceMaxIds == 5
UndoMaxIds == 11
UndoAddMaxIds == 16
PromptMaxIds == 28
BacklogMaxIds == 5
PagesMaxIds == 8
WindowMaxIds == 5
CascadeMaxIds == 6

(* SQL NULL / Python None in an integer column. *)
NULL == 0

GLOBAL_TRACKER_NAME == "Sem 6 - NITT EEE B"
DEFAULT_RANGE_DAYS == 150

Users == {1, 2}
Workers == {"w1", "w2"}
(* Browser sessions, each with a st.session_state of its own. *)
Actors == {"a1", "a2"}
(* The racing calls are those of one user's browser sessions. *)
RaceUsers == {1}
Statuses == {"PENDING", "ATTENDED", "MISSED", "CANCELLED"}
StatusInputs == {"ATTENDED", "PENDING"}

(* date.today(), the window of the global tracker the store starts with, and
   the Mondays callers ask for. *)
TodayInputs == {8}
(* date.today() of the backlog calls: before the window, inside its first
   week, on its last day, after it. *)
BacklogDays == {0, 4, 8, 12}
InitRange == <<1, 8>>
WeekStarts == {0, 7}

(* Inputs of the class forms: subject, day, start, end. *)
GoodForms == {<<" Math ", 0, "9:00", "10:00">>, <<"Math", 2, "09:00", "10:00">>}
BadForms == {<<"  ", 0, "9:00", "10:00">>, <<"Math", 0, "10:00", "9:00">>,
             <<"Math", 2, "9:00", "09:00">>}
(* Inputs of the add and edit forms of the sidebar. *)
AddForms == {<<"Math", 0, "09:00", "10:00">>, <<"  ", 0, "9:00", "10:00">>}
EditForms == {<<" Phys ", 0, "08:00", "11:00">>, <<"Math", 2, "10:00", "9:00">>}
MarkInputs == {"ATTENDED", "CANCELLED", "MISSED"}
(* Classes added to the clone for the statistics: with the cloned Wednesday
   class, Math has six sessions in the window and Phys one. *)
StatsForms == <<(<<"Math", 1, "09:00", "10:00">>), (<<"Math", 1, "08:00", "11:00">>),
                (<<"Math", 0, "09:00", "10:00">>), (<<"Phys", 0, "08:00", "11:00">>)>>
(* Classes added to the clone for the prompts: two on Monday whose end times
   order the other way than their start times, one on Wednesday that ends
   at 01:00. *)
PromptForms == <<(<<"Phys", 0, "08:00", "11:00">>), (<<"Math", 0, "09:00", "10:00">>),
                 (<<"Math", 2, "00:30", "01:00">>)>>
(* Inputs of the create-tracker form: name, start date, end date. *)
NameInputs == {"Lab"}
RangeInputs == {<<1, 8>>, <<8, 1>>}
(* The window of a tracker made a week after the first one. *)
LaterRange == <<7, 13>>

----------------------------------------------------------------------------
(* datetime arithmetic: seconds in a day and in a minute. *)
SecondsPerDay == 86400
SecondsPerMinute == 60
POST_CLASS_BUFFER_MIN == 5

(* The clock of the states that do not move it: 10:05:00 on the day. *)
ClockAt1005(day) == day * SecondsPerDay + 605 * SecondsPerMinute

(* st.session_state.undo_timetable and .last_attendance_action: None, or the
   dict the page stores (old is the prior row, a set of at most one row). *)
NoUndo == [type |-> "none", class_id |-> NULL, old |-> {}]
NoAttendanceAction == [type |-> "none", session_id |-> NULL, prev_status |-> "none"]
(* A browser session before login: main() sets page "auth", user_id None and
   active_tracker None.  Only SpecPages routes; the other specifications take
   the user and the open tracker of a click as given. *)
NoNav == [user_id |-> NULL, active_tracker |-> NULL, tracker_view |-> "summary"]

(* Results of a call: the store afterwards, the value returned, the exception. *)
Ok(d, r) == [db |-> d, ret |-> r, err |-> "none"]
Raise(d, e) == [db |-> d, ret |-> NULL, err |-> e]

----------------------------------------------------------------------------
(* Faulty variants of statements of the source, each one constraint or one
   statement short of it.  The properties at the end of the module are there
   to tell the source from these. *)

(* The tracker insert without idx_unique_clone. *)
InsertTrackerNoIndex(d, name, sd, ed, isg, owner, from) ==
    LET tid == d.seq.trackers + 1
        row == [tracker_id |-> tid, name |-> name, start_date |-> sd,
                end_date |-> ed, is_global |-> isg, owner_user_id |-> owner,
                cloned_from |-> from]
    IN Ok([d EXCEPT !.trackers = @ \cup {row}, !.seq.trackers = tid], tid)

(* A clone lookup that never finds the row. *)
clone_lookup_skipped(d, user_id, gid) == {}

(* A copy of the classes that leaves day_of_week at the column's first value. *)
CopyClassesNoDay(d, gid, new_tid) ==
    LET src == {c \in d.classes : c.tracker_id = gid}
        rank(c) == Cardinality({x \in src : x.class_id <= c.class_id})
        copy(c) == [class_id |-> d.seq.classes + rank(c), subject |-> c.subject,
                    day_of_week |-> 0, start_time |-> c.start_time,
                    end_time |-> c.end_time, tracker_id |-> new_tid]
    IN [d EXCEPT !.classes = @ \cup {copy(c) : c \in src},
                 !.seq.classes = @ + Cardinality(src)]

(* INSERT OR REPLACE in place of INSERT OR IGNORE: the row in conflict is
   deleted and a fresh PENDING row takes its place. *)
insert_or_replace_session(d, user_id, class_id, session_date) ==
    LET sid == d.seq.sessions + 1
        row == [session_id |-> sid, user_id |-> user_id, class_id |-> class_id,
                session_date |-> session_date, status |-> "PENDING"]
        same(s) == /\ s.user_id = user_id
                   /\ s.class_id = class_id
                   /\ s.session_date = session_date
    IN [d EXCEPT !.sessions = {s \in @ : ~same(s)} \cup {row},
                 !.seq.sessions = sid]

(* The session insert without UNIQUE(user_id, class_id, session_date). *)
insert_session_no_unique(d, user_id, class_id, session_date) ==
    LET sid == d.seq.sessions + 1
        row == [session_id |-> sid, user_id |-> user_id, class_id |-> class_id,
                session_date |-> session_date, status |-> "PENDING"]
    IN [d EXCEPT !.sessions = @ \cup {row}, !.seq.sessions = sid]

(* An undo of an attendance change that puts the session back to PENDING
   whatever it was before. *)
click_undo_attendance_to_pending(d, ut, la, user_id, t, day) ==
    IF la.type = "none"
    THEN [db |-> d, undo_timetable |-> ut, last_attendance_action |-> la,
          outcome |-> "absent"]
    ELSE [db |-> [d EXCEPT !.sessions =
                     {IF s.session_id = la.session_id
                      THEN [s EXCEPT !.status = "PENDING"] ELSE s : s \in @}],
          undo_timetable |-> ut,
          last_attendance_action |->
              [type |-> "none", session_id |-> 0, prev_status |-> "none"],
          outcome |-> "none"]

(* "Undo Last Timetable Change" left enabled while nothing is pending: the
   handler runs, its exception is caught and the page goes on rendering. *)
click_undo_timetable_enabled(d, ut, la, user_id, t, day) ==
    [db |-> d, undo_timetable |-> ut, last_attendance_action |-> la,
     outcome |-> IF ut.type = "none" THEN "AttributeError" ELSE "none"]

(* delete_class without its DELETE FROM sessions. *)
delete_class_only(d, class_id) ==
    LET old == {c \in d.classes : c.class_id = class_id}
    IN Ok([d EXCEPT !.classes = @ \ old], old)

(* delete_tracker without its clear_timetable. *)
delete_tracker_only(d, tracker_id) ==
    Ok([d EXCEPT !.trackers = {t \in @ : t.tracker_id # tracker_id}], NULL)

(* str.strip() on the inputs above. *)
Strip(s) ==
    CASE s = " Math " -> "Math"
      [] s = " Phys " -> "Phys"
      [] s = "  " -> ""
      [] s = " " -> ""
      [] OTHER -> s

(* datetime.strptime(hhmm.strip(), "%H:%M"): minutes since midnight, -1 when
   strptime raises ValueError. *)
parse_time_to_minutes(hhmm) ==
    CASE hhmm = "9:00" -> 540
      [] hhmm = "09:00" -> 540
      [] hhmm = "10:00" -> 600
      [] hhmm = "00:30" -> 30
      [] hhmm = "01:00" -> 60
      [] hhmm = "08:00" -> 480
      [] hhmm = "11:00" -> 660
      [] OTHER -> -1

(* f"{t.hour:02d}:{t.minute:02d}" of the parsed time. *)
normalize_time(hhmm) ==
    CASE parse_time_to_minutes(hhmm) = 540 -> "09:00"
      [] parse_time_to_minutes(hhmm) = 600 -> "10:00"
      [] parse_time_to_minutes(hhmm) = 30 -> "00:30"
      [] parse_time_to_minutes(hhmm) = 60 -> "01:00"
      [] parse_time_to_minutes(hhmm) = 480 -> "08:00"
      [] parse_time_to_minutes(hhmm) = 660 -> "11:00"
      [] OTHER -> "ValueError"

monday_of(d) == d - (d % 7)

(* Text order of the subjects (ORDER BY subject). *)
SubjectRank(s) ==
    CASE s = "Math" -> 1
      [] s = "Phys" -> 2
      [] OTHER -> 0

Min(S) == CHOOSE x \in S : \A y \in S : x <= y

RECURSIVE LexLess(_, _)
LexLess(a, b) ==
    IF a = <<>> \/ b = <<>> THEN FALSE
    ELSE IF Head(a) # Head(b) THEN Head(a) < Head(b)
    ELSE LexLess(Tail(a), Tail(b))

----------------------------------------------------------------------------
(* Trackers *)

GlobalRows(d) == {t \in d.trackers : t.is_global = 1}

TrackerById(d, tid) == {t \in d.trackers : t.tracker_id = tid}

(* SELECT * FROM trackers WHERE is_global=1 ORDER BY tracker_id LIMIT 1;
   the empty set stands for "no row". *)
FirstGlobal(d) ==
    {t \in GlobalRows(d) : \A o \in GlobalRows(d) : t.tracker_id <= o.tracker_id}

(* INSERT INTO trackers(...): the AUTOINCREMENT key, and the partial unique
   index idx_unique_clone on (owner_user_id, cloned_from) WHERE cloned_from
   IS NOT NULL.  Returns the new store and the rowid, or IntegrityError. *)
InsertTracker(d, name, sd, ed, isg, owner, from) ==
    LET tid == d.seq.trackers + 1
        row == [tracker_id |-> tid, name |-> name, start_date |-> sd,
                end_date |-> ed, is_global |-> isg, owner_user_id |-> owner,
                cloned_from |-> from]
    IN IF from # NULL /\ \E t \in d.trackers :
                            t.owner_user_id = owner /\ t.cloned_from = from
       THEN Raise(d, "IntegrityError")
       ELSE Ok([d EXCEPT !.trackers = @ \cup {row}, !.seq.trackers = tid], tid)

get_global_tracker(d) ==
    IF FirstGlobal(d) = {} THEN Raise(d, "RuntimeError")
    ELSE Ok(d, (CHOOSE t \in FirstGlobal(d) : TRUE).tracker_id)

(* get_or_create_user_clone from its second "with conn()" on: the lookup of an
   existing clone (a read of its own), then one transaction that inserts the
   tracker and copies the classes of tracker g.tracker_id in class_id order. *)
clone_lookup(d, user_id, gid) ==
    {t \in d.trackers : t.owner_user_id = user_id /\ t.cloned_from = gid}

CopyClasses(d, gid, new_tid) ==
    LET src == {c \in d.classes : c.tracker_id = gid}
        rank(c) == Cardinality({x \in src : x.class_id <= c.class_id})
        copy(c) == [class_id |-> d.seq.classes + rank(c), subject |-> c.subject,
                    day_of_week |-> c.day_of_week, start_time |-> c.start_time,
                    end_time |-> c.end_time, tracker_id |-> new_tid]
    IN [d EXCEPT !.classes = @ \cup {copy(c) : c \in src},
                 !.seq.classes = @ + Cardinality(src)]

clone_create(d, user_id, g) ==
    LET ins == InsertTracker(d, g.name, g.start_date, g.end_date, 0, user_id,
                             g.tracker_id)
    IN IF ins.err # "none" THEN Raise(d, ins.err)
       ELSE Ok(CopyClasses(ins.db, g.tracker_id, ins.ret), ins.ret)

get_or_create_user_clone(d, user_id) ==
    IF get_global_tracker(d).err # "none" THEN Raise(d, "RuntimeError")
    ELSE LET g == CHOOSE t \in FirstGlobal(d) : TRUE
             existing == clone_lookup(d, user_id, g.tracker_id)
         IN IF existing # {}
            THEN Ok(d, Min({t.tracker_id : t \in existing}))
            ELSE clone_create(d, user_id, g)

(* Faulty variant: WHERE owner_user_id=? OR is_global=1, the shared timetable
   listed next to the user's own trackers. *)
list_user_trackers_with_global(d, user_id) ==
    LET r == get_or_create_user_clone(d, user_id)
    IN IF r.err # "none" THEN r
       ELSE Ok(r.db, {t.tracker_id : t \in {x \in r.db.trackers :
                         x.owner_user_id = user_id \/ x.is_global = 1}})

(* SELECT * FROM trackers WHERE owner_user_id=? (after the clone is ensured). *)
list_user_trackers(d, user_id) ==
    LET r == get_or_create_user_clone(d, user_id)
    IN IF r.err # "none" THEN r
       ELSE Ok(r.db, {t.tracker_id : t \in {x \in r.db.trackers :
                                              x.owner_user_id = user_id}})

get_tracker_for_user(d, user_id, tracker_id) ==
    {t \in d.trackers : t.tracker_id = tracker_id /\ t.owner_user_id = user_id}

create_tracker_for_user(d, user_id, name, start_date, end_date) ==
    LET nm == IF Strip(name) = "" THEN "Untitled Tracker" ELSE Strip(name)
    IN IF end_date < start_date THEN Raise(d, "ValueError")
       ELSE LET ins == InsertTracker(d, nm, start_date, end_date, 0, user_id, NULL)
            IN Ok(ins.db, NULL)

----------------------------------------------------------------------------
(* Classes *)

ClassById(d, cid) == {c \in d.classes : c.class_id = cid}

ClassesOf(d, tid) == {c \in d.classes : c.tracker_id = tid}

ClassKey(c) ==
    <<c.day_of_week, parse_time_to_minutes(c.start_time),
      parse_time_to_minutes(c.end_time), SubjectRank(c.subject), c.class_id>>

RECURSIVE SortClasses(_)
SortClasses(S) ==
    IF S = {} THEN <<>>
    ELSE LET m == CHOOSE c \in S : \A o \in S \ {c} : LexLess(ClassKey(c), ClassKey(o))
         IN <<m>> \o SortClasses(S \ {m})

(* SELECT * FROM classes WHERE tracker_id=? ORDER BY day_of_week, start_time,
   end_time, subject (rows that tie come in rowid order). *)
(* Faulty variant: SELECT * FROM classes without WHERE tracker_id=?. *)
list_all_classes(d, tracker_id) ==
    SortClasses(d.classes)

list_classes(d, tracker_id) ==
    SortClasses(ClassesOf(d, tracker_id))

(* Faulty variant: the times are compared with <, so a class that ends when
   it starts is accepted. *)
ClassInputErrorEndBefore(subject, start, end) ==
    IF Strip(subject) = "" THEN "ValueError"
    ELSE IF parse_time_to_minutes(start) < 0 \/ parse_time_to_minutes(end) < 0
         THEN "ValueError"
    ELSE IF parse_time_to_minutes(normalize_time(end))
              < parse_time_to_minutes(normalize_time(start))
         THEN "ValueError"
    ELSE "none"

(* The checks add_class and update_class make before they touch the store. *)
ClassInputError(subject, start, end) ==
    IF Strip(subject) = "" THEN "ValueError"
    ELSE IF parse_time_to_minutes(start) < 0 \/ parse_time_to_minutes(end) < 0
         THEN "ValueError"
    ELSE IF parse_time_to_minutes(normalize_time(end))
              <= parse_time_to_minutes(normalize_time(start))
         THEN "ValueError"
    ELSE "none"

add_class(d, tracker_id, subject, day, start, end) ==
    IF ClassInputError(subject, start, end) # "none" THEN Raise(d, "ValueError")
    ELSE LET cid == d.seq.classes + 1
             row == [class_id |-> cid, subject |-> Strip(subject),
                     day_of_week |-> day, start_time |-> normalize_time(start),
                     end_time |-> normalize_time(end), tracker_id |-> tracker_id]
         IN Ok([d EXCEPT !.classes = @ \cup {row}, !.seq.classes = cid], cid)

(* Faulty variant: the row is read after the UPDATE, so what is returned as
   the prior row is the edited one. *)
update_class_returns_new(d, class_id, subject, day, start, end) ==
    IF ClassInputError(subject, start, end) # "none" THEN Raise(d, "ValueError")
    ELSE LET old == ClassById(d, class_id)
             new == {[c EXCEPT !.subject = Strip(subject), !.day_of_week = day,
                               !.start_time = normalize_time(start),
                               !.end_time = normalize_time(end)] : c \in old}
         IN Ok([d EXCEPT !.classes = (@ \ old) \cup new], new)

(* Faulty variant: an edit that moves the class to another weekday drops the
   sessions made for the former weekday. *)
update_class_dropping_sessions(d, class_id, subject, day, start, end) ==
    IF ClassInputError(subject, start, end) # "none" THEN Raise(d, "ValueError")
    ELSE LET old == ClassById(d, class_id)
             upd(c) == [c EXCEPT !.subject = Strip(subject), !.day_of_week = day,
                                 !.start_time = normalize_time(start),
                                 !.end_time = normalize_time(end)]
         IN Ok([d EXCEPT !.classes = (@ \ old) \cup {upd(c) : c \in old},
                         !.sessions = {s \in @ : s.class_id = class_id
                                                    => s.session_date % 7 = day}],
               old)

(* Returns the prior row (a set of at most one row; empty for None). *)
update_class(d, class_id, subject, day, start, end) ==
    IF ClassInputError(subject, start, end) # "none" THEN Raise(d, "ValueError")
    ELSE LET old == ClassById(d, class_id)
             upd(c) == [c EXCEPT !.subject = Strip(subject), !.day_of_week = day,
                                 !.start_time = normalize_time(start),
                                 !.end_time = normalize_time(end)]
         IN Ok([d EXCEPT !.classes = (@ \ old) \cup {upd(c) : c \in old}], old)

delete_class(d, class_id) ==
    LET old == ClassById(d, class_id)
    IN Ok([d EXCEPT !.sessions = {s \in @ : s.class_id # class_id},
                    !.classes = @ \ old], old)

----------------------------------------------------------------------------
(* Sessions *)

(* Faulty variant: ON CONFLICT DO UPDATE SET status='PENDING' in place of OR
   IGNORE; the row in conflict keeps its id and loses its answer. *)
insert_or_reset_session(d, user_id, class_id, session_date) ==
    LET sid == d.seq.sessions + 1
        row == [session_id |-> sid, user_id |-> user_id, class_id |-> class_id,
                session_date |-> session_date, status |-> "PENDING"]
        same(s) == /\ s.user_id = user_id
                   /\ s.class_id = class_id
                   /\ s.session_date = session_date
    IN IF \E s \in d.sessions : same(s)
       THEN [d EXCEPT !.sessions = {IF same(s) THEN [s EXCEPT !.status = "PENDING"]
                                    ELSE s : s \in @},
                      !.seq.sessions = sid]
       ELSE [d EXCEPT !.sessions = @ \cup {row}, !.seq.sessions = sid]

(* INSERT OR IGNORE INTO sessions(user_id, class_id, session_date, status)
   VALUES (?,?,?,'PENDING') under UNIQUE(user_id, class_id, session_date).
   SQLite draws the AUTOINCREMENT rowid before it finds the conflict, so an
   ignored insert still advances the counter. *)
insert_or_ignore_session(d, user_id, class_id, session_date) ==
    LET sid == d.seq.sessions + 1
        row == [session_id |-> sid, user_id |-> user_id, class_id |-> class_id,
                session_date |-> session_date, status |-> "PENDING"]
    IN IF \E s \in d.sessions : /\ s.user_id = user_id
                                /\ s.class_id = class_id
                                /\ s.session_date = session_date
       THEN [d EXCEPT !.seq.sessions = sid]
       ELSE [d EXCEPT !.sessions = @ \cup {row}, !.seq.sessions = sid]

(* Faulty variant: a date outside the tracker's window is moved to the nearer
   boundary instead of being skipped. *)
RECURSIVE insert_week_sessions_clamped(_, _, _, _, _, _)
insert_week_sessions_clamped(d, user_id, classes, week_start, tracker_start, tracker_end) ==
    IF classes = <<>> THEN d
    ELSE LET cl == Head(classes)
             day == week_start + cl.day_of_week
             clamped == IF day < tracker_start THEN tracker_start
                        ELSE IF day > tracker_end THEN tracker_end ELSE day
         IN insert_week_sessions_clamped(
                insert_or_ignore_session(d, user_id, cl.class_id, clamped),
                user_id, Tail(classes), week_start, tracker_start, tracker_end)

(* The transaction of ensure_sessions_for_week over the classes it has read. *)
RECURSIVE insert_week_sessions(_, _, _, _, _, _)
insert_week_sessions(d, user_id, classes, week_start, tracker_start, tracker_end) ==
    IF classes = <<>> THEN d
    ELSE LET cl == Head(classes)
             day == week_start + cl.day_of_week
         IN IF day < tracker_start \/ day > tracker_end
            THEN insert_week_sessions(d, user_id, Tail(classes), week_start,
                                      tracker_start, tracker_end)
            ELSE insert_week_sessions(
                     insert_or_ignore_session(d, user_id, cl.class_id, day),
                     user_id, Tail(classes), week_start, tracker_start, tracker_end)

(* Faulty variant: a week in which the user already has a session of the
   tracker is taken as materialized and skipped. *)
ensure_sessions_for_week_if_empty(d, user_id, tracker_id, week_start, tracker_start, tracker_end) ==
    IF \E s \in d.sessions :
          /\ s.user_id = user_id
          /\ s.session_date >= week_start /\ s.session_date < week_start + 7
          /\ \E c \in ClassesOf(d, tracker_id) : c.class_id = s.class_id
    THEN Ok(d, NULL)
    ELSE Ok(insert_week_sessions(d, user_id, list_classes(d, tracker_id), week_start,
                                 tracker_start, tracker_end), NULL)

ensure_sessions_for_week(d, user_id, tracker_id, week_start, tracker_start, tracker_end) ==
    Ok(insert_week_sessions(d, user_id, list_classes(d, tracker_id), week_start,
                            tracker_start, tracker_end), NULL)

(* ensure_sessions_up_to_today: every week from the Monday of tracker_start
   to the Monday of min(today, tracker_end), one ensure_sessions_for_week each. *)
RECURSIVE ensure_weeks_from(_, _, _, _, _, _, _)
ensure_weeks_from(d, user_id, tracker_id, w, end_monday, tracker_start, tracker_end) ==
    IF w > end_monday THEN d
    ELSE ensure_weeks_from(
             ensure_sessions_for_week(d, user_id, tracker_id, w, tracker_start,
                                      tracker_end).db,
             user_id, tracker_id, w + 7, end_monday, tracker_start, tracker_end)

(* Faulty variant: the loop runs while w < end_monday, leaving out the week
   of min(today, tracker_end). *)
ensure_sessions_up_to_last_week(d, user_id, tracker_id, tracker_start, tracker_end, day) ==
    LET upto == IF day < tracker_end THEN day ELSE tracker_end
    IN IF upto < tracker_start THEN Ok(d, NULL)
       ELSE Ok(ensure_weeks_from(d, user_id, tracker_id, monday_of(tracker_start),
                                 monday_of(upto) - 7, tracker_start, tracker_end), NULL)

ensure_sessions_up_to_today(d, user_id, tracker_id, tracker_start, tracker_end, day) ==
    LET upto == IF day < tracker_end THEN day ELSE tracker_end
    IN IF upto < tracker_start THEN Ok(d, NULL)
       ELSE Ok(ensure_weeks_from(d, user_id, tracker_id, monday_of(tracker_start),
                                 monday_of(upto), tracker_start, tracker_end), NULL)

(* Faulty variant: a forward-only status model, in which an answered session
   is never put back to PENDING. *)
set_status_forward_only(d, session_id, status) ==
    [db |-> [d EXCEPT !.sessions =
                {IF s.session_id = session_id /\ status # "PENDING"
                 THEN [s EXCEPT !.status = status] ELSE s : s \in @}],
     ret |-> 0, err |-> "none"]

(* Faulty variant: the sessions table without its CHECK on status. *)
set_status_unchecked(d, session_id, status) ==
    Ok([d EXCEPT !.sessions =
           {IF s.session_id = session_id THEN [s EXCEPT !.status = status]
            ELSE s : s \in @}], NULL)

(* UPDATE sessions SET status=? WHERE session_id=? under the CHECK on status. *)
set_status(d, session_id, status) ==
    IF status \notin Statuses /\ \E s \in d.sessions : s.session_id = session_id
    THEN Raise(d, "IntegrityError")
    ELSE Ok([d EXCEPT !.sessions =
                {IF s.session_id = session_id THEN [s EXCEPT !.status = status]
                 ELSE s : s \in @}], NULL)

----------------------------------------------------------------------------
(* Cascading deletes *)

(* Faulty variant: DELETE FROM classes without WHERE tracker_id=?. *)
clear_all_rows(d, tracker_id, ids) ==
    [d EXCEPT !.sessions = {s \in @ : s.class_id \notin ids},
              !.classes = {}]

(* The transaction of clear_timetable, ids being the class ids it has read:
   DELETE FROM sessions WHERE class_id IN (ids); DELETE FROM classes WHERE
   tracker_id=?. *)
clear_rows(d, tracker_id, ids) ==
    [d EXCEPT !.sessions = {s \in @ : s.class_id \notin ids},
              !.classes = {c \in @ : c.tracker_id # tracker_id}]

clear_timetable(d, tracker_id) ==
    LET ids == {c.class_id : c \in ClassesOf(d, tracker_id)}
    IN Ok(clear_rows(d, tracker_id, ids), NULL)

delete_tracker(d, tracker_id) ==
    LET cleared == clear_timetable(d, tracker_id).db
    IN Ok([cleared EXCEPT !.trackers = {t \in @ : t.tracker_id # tracker_id}], NULL)

----------------------------------------------------------------------------
(* Attendance prompts *)

(* A row of the join of sessions and classes that the prompt query selects. *)
PromptRow(s, c) ==
    [session_id |-> s.session_id, session_date |-> s.session_date,
     status |-> s.status, subject |-> c.subject, start_time |-> c.start_time,
     end_time |-> c.end_time]

(* ORDER BY s.session_date, c.end_time, c.start_time, c.subject: the times
   are zero-padded HH:MM texts, which order as their minutes do; rows that
   tie are taken in session_id order. *)
PromptKey(r) ==
    <<r.session_date, parse_time_to_minutes(r.end_time),
      parse_time_to_minutes(r.start_time), SubjectRank(r.subject), r.session_id>>

(* Faulty variant: ORDER BY s.session_date, c.start_time, c.end_time,
   c.subject, the order of the week view. *)
RECURSIVE SortPromptsByStart(_)
SortPromptsByStart(S) ==
    IF S = {} THEN <<>>
    ELSE LET key(r) == <<r.session_date, parse_time_to_minutes(r.start_time),
                         parse_time_to_minutes(r.end_time), SubjectRank(r.subject),
                         r.session_id>>
             m == CHOOSE r \in S : \A o \in S \ {r} : LexLess(key(r), key(o))
         IN <<m>> \o SortPromptsByStart(S \ {m})

RECURSIVE SortPrompts(_)
SortPrompts(S) ==
    IF S = {} THEN <<>>
    ELSE LET m == CHOOSE r \in S : \A o \in S \ {r} : LexLess(PromptKey(r), PromptKey(o))
         IN <<m>> \o SortPrompts(S \ {m})

(* datetime.combine(d, end_t, tzinfo=IST) + timedelta(minutes=POST_CLASS_BUFFER_MIN) *)
end_dt(r) ==
    r.session_date * SecondsPerDay
      + (parse_time_to_minutes(r.end_time) + POST_CLASS_BUFFER_MIN) * SecondsPerMinute

RECURSIVE FilterDue(_, _)
FilterDue(rows, clock) ==
    IF rows = <<>> THEN <<>>
    ELSE IF clock >= end_dt(Head(rows))
         THEN <<Head(rows)>> \o FilterDue(Tail(rows), clock)
         ELSE FilterDue(Tail(rows), clock)

(* Faulty variant: the query without AND s.status='PENDING', so that an
   answered session stays in the list. *)
get_prompts_of_any_status(d, user_id, tracker_id, tracker_start, tracker_end, day, clock) ==
    LET d1 == ensure_sessions_up_to_today(d, user_id, tracker_id, tracker_start,
                                          tracker_end, day).db
        upto == IF day < tracker_end THEN day ELSE tracker_end
        rows == {PromptRow(s, c) : <<s, c>> \in
                    {p \in d1.sessions \X d1.classes :
                        /\ p[2].class_id = p[1].class_id
                        /\ p[1].user_id = user_id
                        /\ p[2].tracker_id = tracker_id
                        /\ p[1].session_date <= upto}}
    IN Ok(d1, FilterDue(SortPrompts(rows), clock))

(* get_pending_prompts_up_to_now: day is date.today(), clock is
   datetime.now(IST); ret is the list of rows. *)
get_pending_prompts_up_to_now(d, user_id, tracker_id, tracker_start, tracker_end, day, clock) ==
    LET d1 == ensure_sessions_up_to_today(d, user_id, tracker_id, tracker_start,
                                          tracker_end, day).db
        upto == IF day < tracker_end THEN day ELSE tracker_end
        rows == {PromptRow(s, c) : <<s, c>> \in
                    {p \in d1.sessions \X d1.classes :
                        /\ p[2].class_id = p[1].class_id
                        /\ p[1].user_id = user_id
                        /\ p[2].tracker_id = tracker_id
                        /\ p[1].status = "PENDING"
                        /\ p[1].session_date <= upto}}
    IN Ok(d1, FilterDue(SortPrompts(rows), clock))

----------------------------------------------------------------------------
(* Undo of a timetable change *)

(* Faulty variant: the row is inserted without its class_id, so that
   AUTOINCREMENT gives it the next id. *)
InsertClassFreshId(d, row) ==
    Ok([d EXCEPT !.classes = @ \cup {[row EXCEPT !.class_id = d.seq.classes + 1]},
                 !.seq.classes = @ + 1], NULL)

(* INSERT INTO classes(class_id, ...) with the key given: IntegrityError on a
   class_id in use; the AUTOINCREMENT counter never falls below the key. *)
InsertClassWithId(d, row) ==
    IF ClassById(d, row.class_id) # {} THEN Raise(d, "IntegrityError")
    ELSE Ok([d EXCEPT !.classes = @ \cup {row},
                      !.seq.classes = IF @ < row.class_id THEN row.class_id ELSE @],
            NULL)

(* Faulty variant: the undo of an add deletes the class row only, without
   the DELETE FROM sessions before it. *)
apply_undo_timetable_keeps_sessions(d, action) ==
    CASE action.type = "add" ->
           Ok([d EXCEPT !.classes = {c \in @ : c.class_id # action.class_id}], NULL)
      [] action.type = "edit" ->
           LET o == CHOOSE x \in action.old : TRUE
           IN Ok([d EXCEPT !.classes =
                     {IF c.class_id = action.class_id
                      THEN [c EXCEPT !.subject = o.subject,
                                     !.day_of_week = o.day_of_week,
                                     !.start_time = o.start_time,
                                     !.end_time = o.end_time]
                      ELSE c : c \in @}], NULL)
      [] action.type = "delete" ->
           InsertClassWithId(d, CHOOSE x \in action.old : TRUE)
      [] action.type = "none" -> Raise(d, "AttributeError")
      [] OTHER -> Raise(d, "ValueError")

(* action is st.session_state.undo_timetable; on None, action.get raises. *)
apply_undo_timetable(d, action) ==
    CASE action.type = "add" ->
           Ok([d EXCEPT !.sessions = {s \in @ : s.class_id # action.class_id},
                        !.classes = {c \in @ : c.class_id # action.class_id}], NULL)
      [] action.type = "edit" ->
           LET put(c) == LET o == CHOOSE x \in action.old : TRUE
                         IN [c EXCEPT !.subject = o.subject,
                                      !.day_of_week = o.day_of_week,
                                      !.start_time = o.start_time,
                                      !.end_time = o.end_time]
           IN Ok([d EXCEPT !.classes = {IF c.class_id = action.class_id
                                        THEN put(c) ELSE c : c \in @}], NULL)
      [] action.type = "delete" ->
           InsertClassWithId(d, CHOOSE x \in action.old : TRUE)
      [] action.type = "none" -> Raise(d, "AttributeError")
      [] OTHER -> Raise(d, "ValueError")

----------------------------------------------------------------------------
(* Statistics *)

(* The rows of sessions JOIN classes WHERE s.user_id=? AND c.tracker_id=? that
   GROUP BY c.subject puts under subject. *)
StatRows(d, user_id, tracker_id, subject) ==
    {s \in d.sessions :
        /\ s.user_id = user_id
        /\ \E c \in ClassesOf(d, tracker_id) :
               c.class_id = s.class_id /\ c.subject = subject}

(* SUM(s.status = status) of the group. *)
StatCount(d, user_id, tracker_id, subject, status) ==
    Cardinality({s \in StatRows(d, user_id, tracker_id, subject) : s.status = status})

(* round(a / denom * 100.0, 2) in hundredths of a percent: the nearest
   hundredth.  Two hundredths are equally near only when denom is a multiple
   of 32, where the float product decides; the even one is taken here. *)
RoundedPct(a, denom) ==
    IF denom = 0 THEN 0
    ELSE LET n == a * 10000
             q == n \div denom
             r == n % denom
         IN IF 2 * r > denom \/ (2 * r = denom /\ q % 2 = 1) THEN q + 1 ELSE q

RECURSIVE SortSubjects(_)
SortSubjects(S) ==
    IF S = {} THEN <<>>
    ELSE LET m == CHOOSE x \in S : \A y \in S : SubjectRank(x) <= SubjectRank(y)
         IN <<m>> \o SortSubjects(S \ {m})

(* Faulty variant: cancelled sessions counted in the denominator. *)
course_stats_with_cancelled(d, user_id, tracker_id) ==
    LET subjects == {c.subject : c \in {x \in ClassesOf(d, tracker_id) :
                        StatRows(d, user_id, tracker_id, x.subject) # {}}}
        order == SortSubjects(subjects)
        row(sub) ==
            LET a == StatCount(d, user_id, tracker_id, sub, "ATTENDED")
                m == StatCount(d, user_id, tracker_id, sub, "MISSED")
                cx == StatCount(d, user_id, tracker_id, sub, "CANCELLED")
            IN [Course |-> sub, Attended |-> a, Missed |-> m, Cancelled |-> cx,
                Pct |-> RoundedPct(a, a + m + cx)]
    IN [i \in 1..Len(order) |-> row(order[i])]

(* course_stats: one row per subject that has a session of the user in the
   tracker, in subject order; Pct in hundredths of a percent. *)
course_stats(d, user_id, tracker_id) ==
    LET subjects == {c.subject : c \in {x \in ClassesOf(d, tracker_id) :
                        StatRows(d, user_id, tracker_id, x.subject) # {}}}
        order == SortSubjects(subjects)
        row(sub) ==
            LET a == StatCount(d, user_id, tracker_id, sub, "ATTENDED")
                m == StatCount(d, user_id, tracker_id, sub, "MISSED")
                cx == StatCount(d, user_id, tracker_id, sub, "CANCELLED")
            IN [Course |-> sub, Attended |-> a, Missed |-> m, Cancelled |-> cx,
                Pct |-> RoundedPct(a, a + m)]
    IN [i \in 1..Len(order) |-> row(order[i])]

----------------------------------------------------------------------------
(* init_db on a store that has the current schema: the global tracker is
   found or made, and extra globals are demoted. *)
MakeGlobal(d, tid) ==
    [d EXCEPT !.trackers =
        {IF t.tracker_id = tid
         THEN [t EXCEPT !.name = GLOBAL_TRACKER_NAME, !.is_global = 1,
                        !.owner_user_id = NULL, !.cloned_from = NULL]
         ELSE t : t \in @}]

DemoteExtraGlobals(d) ==
    IF Cardinality(GlobalRows(d)) > 1
    THEN LET keep == Min({t.tracker_id : t \in GlobalRows(d)})
         IN [d EXCEPT !.trackers =
                {IF t.is_global = 1 /\ t.tracker_id # keep
                 THEN [t EXCEPT !.is_global = 0] ELSE t : t \in @}]
    ELSE d

init_db(d, day) ==
    LET ensured ==
          IF FirstGlobal(d) = {}
          THEN IF d.trackers = {}
               THEN InsertTracker(d, GLOBAL_TRACKER_NAME, day,
                                  day + DEFAULT_RANGE_DAYS, 1, NULL, NULL).db
               ELSE MakeGlobal(d, Min({t.tracker_id : t \in d.trackers}))
          ELSE MakeGlobal(d, (CHOOSE t \in FirstGlobal(d) : TRUE).tracker_id)
    IN Ok(DemoteExtraGlobals(ensured), NULL)

----------------------------------------------------------------------------
(* The tasks view of tracker_page: what one click does to the store and to
   the st.session_state of the browser session it comes from.  t is the row
   get_tracker_for_user found; the run that st.rerun() starts renders the
   prompts and the week again, which materializes sessions. *)

Page(d, ut, la, outcome) ==
    [db |-> d, undo_timetable |-> ut, last_attendance_action |-> la,
     outcome |-> outcome]

(* render_week_view's week with week_offset 0, clamped to the window. *)
week_shown(t, day) ==
    LET base == monday_of(day)
        earliest == monday_of(t.start_date)
        latest == monday_of(t.end_date)
    IN IF base < earliest THEN earliest
       ELSE IF base > latest THEN latest
       ELSE base

(* render_attendance_prompts, then render_week_view. *)
render_tasks(d, user_id, t, day) ==
    LET d1 == ensure_sessions_up_to_today(d, user_id, t.tracker_id, t.start_date,
                                          t.end_date, day).db
    IN ensure_sessions_for_week(d1, user_id, t.tracker_id, week_shown(t, day),
                                t.start_date, t.end_date).db

(* "Undo Last Timetable Change": disabled while undo_timetable is None. *)
(* Faulty variant: the entry is left in st.session_state after the undo. *)
click_undo_timetable_keeps_entry(d, ut, la, user_id, t, day) ==
    IF ut = NoUndo THEN Page(d, ut, la, "disabled")
    ELSE LET r == apply_undo_timetable(d, ut)
         IN Page(render_tasks(r.db, user_id, t, day), ut, la, r.err)

click_undo_timetable(d, ut, la, user_id, t, day) ==
    IF ut = NoUndo THEN Page(d, ut, la, "disabled")
    ELSE LET r == apply_undo_timetable(d, ut)
         IN IF r.err # "none"
            THEN Page(render_tasks(d, user_id, t, day), ut, la, r.err)
            ELSE Page(render_tasks(r.db, user_id, t, day), NoUndo, la, "none")

(* Faulty variant of "Add": an entry that is already pending is kept, the
   new class getting an entry only when the slot is empty. *)
click_add_keeps_entry(d, ut, la, user_id, t, form, day) ==
    LET r == add_class(d, t.tracker_id, form[1], form[2], form[3], form[4])
    IN IF r.err # "none"
       THEN Page(render_tasks(d, user_id, t, day), ut, la, r.err)
       ELSE Page(render_tasks(r.db, user_id, t, day),
                 IF ut.type = "none"
                 THEN [type |-> "add", class_id |-> r.ret, old |-> {}]
                 ELSE ut,
                 la, "none")

(* "Add" of add_class_form. *)
click_add(d, ut, la, user_id, t, form, day) ==
    LET r == add_class(d, t.tracker_id, form[1], form[2], form[3], form[4])
    IN IF r.err # "none"
       THEN Page(render_tasks(d, user_id, t, day), ut, la, r.err)
       ELSE Page(render_tasks(r.db, user_id, t, day),
                 [type |-> "add", class_id |-> r.ret, old |-> {}], la, "none")

(* "Save" of edit_class_form, target being a class the sidebar lists. *)
click_save(d, ut, la, user_id, t, class_id, form, day) ==
    LET r == update_class(d, class_id, form[1], form[2], form[3], form[4])
    IN IF r.err # "none"
       THEN Page(render_tasks(d, user_id, t, day), ut, la, r.err)
       ELSE Page(render_tasks(r.db, user_id, t, day),
                 IF r.ret # {}
                 THEN [type |-> "edit", class_id |-> class_id, old |-> r.ret]
                 ELSE ut,
                 la, "none")

(* "Confirm Delete Class". *)
click_delete_class(d, ut, la, user_id, t, class_id, day) ==
    LET r == delete_class(d, class_id)
    IN Page(render_tasks(r.db, user_id, t, day),
            IF r.ret # {} THEN [type |-> "delete", class_id |-> NULL, old |-> r.ret]
            ELSE ut,
            la, "none")

(* "Confirm Clear". *)
click_confirm_clear(d, ut, la, user_id, t, day) ==
    Page(render_tasks(clear_timetable(d, t.tracker_id).db, user_id, t, day),
         NoUndo, la, "none")

(* "Mark Attended" / "Mark Cancelled" / "Mark Missed" of a prompt: the button
   is there for the rows get_pending_prompts_up_to_now returns. *)
click_mark(d, ut, la, user_id, t, session_id, status, day, clock) ==
    LET p == get_pending_prompts_up_to_now(d, user_id, t.tracker_id, t.start_date,
                                           t.end_date, day, clock)
        hit == {i \in 1..Len(p.ret) : p.ret[i].session_id = session_id}
    IN IF hit = {} THEN Page(p.db, ut, la, "absent")
       ELSE LET r == p.ret[CHOOSE i \in hit : TRUE]
            IN Page(render_tasks(set_status(p.db, session_id, status).db,
                                 user_id, t, day),
                    ut,
                    [type |-> "attendance", session_id |-> session_id,
                     prev_status |-> r.status],
                    "none")

(* "Undo Last Attendance Change": not rendered while the entry is None. *)
click_undo_attendance(d, ut, la, user_id, t, day) ==
    IF la = NoAttendanceAction THEN Page(d, ut, la, "absent")
    ELSE Page(render_tasks(set_status(d, la.session_id, la.prev_status).db,
                           user_id, t, day),
              ut, NoAttendanceAction, "none")

(* Look back (days) of "Modify Past Attendance", at its default. *)
DaysBack == 14

(* "Apply Status Change" of render_modify_past_attendance, the prompts having
   been rendered before it in the run. *)
click_apply_status(d, ut, la, user_id, t, session_id, new_status, day) ==
    LET d1 == ensure_sessions_up_to_today(d, user_id, t.tracker_id, t.start_date,
                                          t.end_date, day).db
        rows == {s \in d1.sessions :
                    /\ s.user_id = user_id
                    /\ \E c \in ClassesOf(d1, t.tracker_id) : c.class_id = s.class_id
                    /\ s.session_date >= day - DaysBack
                    /\ s.session_date <= day}
        cur == {s \in rows : s.session_id = session_id}
    IN IF cur = {} THEN Page(d1, ut, la, "absent")
       ELSE Page(render_tasks(set_status(d1, session_id, new_status).db,
                              user_id, t, day),
                 ut,
                 [type |-> "attendance", session_id |-> session_id,
                  prev_status |-> (CHOOSE s \in cur : TRUE).status],
                 "none")

----------------------------------------------------------------------------
(* The state machine: every call of the data layer is one action. *)

InitClassSets ==
    {{}, {[class_id |-> 1, subject |-> "Math", day_of_week |-> 2,
           start_time |-> "09:00", end_time |-> "10:00", tracker_id |-> 1]}}

InitDbs ==
    {[trackers |-> {[tracker_id |-> 1, name |-> GLOBAL_TRACKER_NAME,
                     start_date |-> InitRange[1], end_date |-> InitRange[2],
                     is_global |-> 1, owner_user_id |-> NULL,
                     cloned_from |-> NULL]},
      classes |-> cs,
      sessions |-> {},
      seq |-> [trackers |-> 1, classes |-> Cardinality(cs), sessions |-> 0]]
     : cs \in InitClassSets}

NoLocals == [op |-> "none", user_id |-> NULL, t |-> {}, g |-> {},
             classes |-> <<>>, ids |-> {}, w |-> NULL, end_monday |-> NULL,
             ret |-> NULL, err |-> "none"]

Init ==
    /\ db \in InitDbs
    /\ today \in TodayInputs
    /\ pc = [w \in Workers |-> "idle"]
    /\ loc = [w \in Workers |-> NoLocals]
    /\ now = ClockAt1005(today)
    /\ undo_timetable = [a \in Actors |-> NoUndo]
    /\ last_attendance_action = [a \in Actors |-> NoAttendanceAction]
    /\ nav = [a \in Actors |-> NoNav]

(* A call made by a single caller, from its first statement to its return. *)
Called(r) ==
    /\ db' = r.db
    /\ UNCHANGED <<today, pc, loc, page>>

GetOrCreateUserClone(u) == Called(get_or_create_user_clone(db, u))

CreateTrackerForUser(u, name, range) ==
    Called(create_tracker_for_user(db, u, name, range[1], range[2]))

AddClass(t, form) == Called(add_class(db, t, form[1], form[2], form[3], form[4]))

UpdateClass(c, form) ==
    Called(update_class(db, c, form[1], form[2], form[3], form[4]))

DeleteClass(c) == Called(delete_class(db, c))

EnsureSessionsForWeek(u, t, w) ==
    Called(ensure_sessions_for_week(db, u, t.tracker_id, w, t.start_date,
                                    t.end_date))

SetStatus(sid, status) == Called(set_status(db, sid, status))

ClearTimetable(t) == Called(clear_timetable(db, t))

DeleteTracker(t) == Called(delete_tracker(db, t))

InitDb == Called(init_db(db, today))

TrackerIds == {t.tracker_id : t \in db.trackers}
ClassIds == {c.class_id : c \in db.classes}
SessionIds == {s.session_id : s \in db.sessions}

(* The row ids handed out so far. *)
IdsUsed(d) == d.seq.trackers + d.seq.classes + d.seq.sessions

(* The step stays within n row ids. *)
Within(n) == IdsUsed(db') <= n

----------------------------------------------------------------------------
(* Spec: the store under the calls on classes and sessions. *)
Next ==
    \/ \E u \in Users : GetOrCreateUserClone(u) /\ Within(MaxIds)
    \/ \E t \in TrackerIds, form \in GoodForms \cup BadForms :
          AddClass(t, form) /\ Within(MaxIds)
    \/ \E c \in ClassIds : DeleteClass(c) /\ Within(MaxIds)
    \/ \E u \in Users, t \in db.trackers, w \in WeekStarts :
          EnsureSessionsForWeek(u, t, w) /\ Within(MaxIds)
    \/ \E sid \in SessionIds, status \in StatusInputs :
          SetStatus(sid, status) /\ Within(MaxIds)
    \/ \E t \in TrackerIds : ClearTimetable(t) /\ Within(MaxIds)
    \/ \E t \in TrackerIds : DeleteTracker(t) /\ Within(MaxIds)

Spec == Init /\ [][Next]_vars

(* SpecClone: the store under the calls on trackers. *)
NextClone ==
    \/ \E u \in Users : GetOrCreateUserClone(u) /\ Within(CloneMaxIds)
    \/ \E u \in Users, name \in NameInputs, range \in RangeInputs :
          CreateTrackerForUser(u, name, range) /\ Within(CloneMaxIds)
    \/ \E t \in TrackerIds, form \in GoodForms :
          AddClass(t, form) /\ Within(CloneMaxIds)
    \/ \E u \in Users, t \in db.trackers, w \in WeekStarts :
          EnsureSessionsForWeek(u, t, w) /\ Within(CloneMaxIds)
    \/ \E t \in TrackerIds : DeleteTracker(t) /\ Within(CloneMaxIds)
    \/ InitDb /\ Within(CloneMaxIds)

SpecClone == Init /\ [][NextClone]_vars

----------------------------------------------------------------------------
(* SpecRace: calls of several workers (Streamlit runs every browser session
   in a thread of its own) interleaved statement by statement.  A read made
   outside a transaction sees the store as committed at that moment; the
   write transaction that follows runs alone, SQLite holding its write lock
   until it commits or rolls back. *)

Goto(w, label, locals) ==
    /\ pc' = [pc EXCEPT ![w] = label]
    /\ loc' = [loc EXCEPT ![w] = locals]

(* get_or_create_user_clone: g = get_global_tracker(). *)
CloneStart(w, u) ==
    /\ pc[w] = "idle"
    /\ LET r == get_global_tracker(db)
           l == [NoLocals EXCEPT !.op = "get_or_create_user_clone", !.user_id = u]
       IN IF r.err # "none"
          THEN Goto(w, "done", [l EXCEPT !.err = r.err])
          ELSE Goto(w, "clone_lookup", [l EXCEPT !.g = FirstGlobal(db)])
    /\ UNCHANGED <<db, today, page>>

(* existing = SELECT tracker_id ... WHERE owner_user_id=? AND cloned_from=? *)
CloneLookup(w) ==
    /\ pc[w] = "clone_lookup"
    /\ LET g == CHOOSE t \in loc[w].g : TRUE
           existing == clone_lookup(db, loc[w].user_id, g.tracker_id)
       IN IF existing # {}
          THEN Goto(w, "done",
                    [loc[w] EXCEPT !.ret = Min({t.tracker_id : t \in existing})])
          ELSE Goto(w, "clone_insert", loc[w])
    /\ UNCHANGED <<db, today, page>>

(* INSERT INTO trackers ...; the copy of the classes; commit (or the
   IntegrityError of the unique index, which rolls back and propagates). *)
CloneInsert(w) ==
    /\ pc[w] = "clone_insert"
    /\ LET r == clone_create(db, loc[w].user_id, CHOOSE t \in loc[w].g : TRUE)
       IN /\ db' = r.db
          /\ Goto(w, "done", [loc[w] EXCEPT !.ret = r.ret, !.err = r.err])
    /\ UNCHANGED <<today, page>>

(* ensure_sessions_for_week: classes = list_classes(tracker_id). *)
EnsureWeekStart(w, u, t, week_start) ==
    /\ pc[w] = "idle"
    /\ Goto(w, "ensure_insert",
            [NoLocals EXCEPT !.op = "ensure_sessions_for_week", !.user_id = u,
                             !.t = {t}, !.w = week_start,
                             !.end_monday = week_start,
                             !.classes = list_classes(db, t.tracker_id)])
    /\ UNCHANGED <<db, today, page>>

(* ensure_sessions_up_to_today up to its first list_classes. *)
EnsureBacklogStart(w, u, t) ==
    /\ pc[w] = "idle"
    /\ LET upto == IF today < t.end_date THEN today ELSE t.end_date
           l == [NoLocals EXCEPT !.op = "ensure_sessions_up_to_today",
                                 !.user_id = u, !.t = {t}]
       IN IF upto < t.start_date
          THEN Goto(w, "done", l)
          ELSE Goto(w, "ensure_insert",
                    [l EXCEPT !.w = monday_of(t.start_date),
                              !.end_monday = monday_of(upto),
                              !.classes = list_classes(db, t.tracker_id)])
    /\ UNCHANGED <<db, today, page>>

(* The transaction of INSERT OR IGNOREs over the classes read, then the next
   week of the backlog, if any. *)
EnsureInsert(w) ==
    /\ pc[w] = "ensure_insert"
    /\ LET t == CHOOSE x \in loc[w].t : TRUE
       IN /\ db' = insert_week_sessions(db, loc[w].user_id, loc[w].classes,
                                        loc[w].w, t.start_date, t.end_date)
          /\ IF loc[w].w + 7 > loc[w].end_monday
             THEN Goto(w, "done", loc[w])
             ELSE Goto(w, "ensure_read", [loc[w] EXCEPT !.w = @ + 7])
    /\ UNCHANGED <<today, page>>

EnsureRead(w) ==
    /\ pc[w] = "ensure_read"
    /\ LET t == CHOOSE x \in loc[w].t : TRUE
       IN Goto(w, "ensure_insert",
               [loc[w] EXCEPT !.classes = list_classes(db, t.tracker_id)])
    /\ UNCHANGED <<db, today, page>>

(* The call returns (or its exception reaches the caller). *)
Return(w) ==
    /\ pc[w] = "done"
    /\ Goto(w, "idle", NoLocals)
    /\ UNCHANGED <<db, today, page>>

NextRace ==
    \/ \E w \in Workers, u \in RaceUsers :
          CloneStart(w, u) /\ Within(RaceMaxIds)
    \/ \E w \in Workers : CloneLookup(w) /\ Within(RaceMaxIds)
    \/ \E w \in Workers : CloneInsert(w) /\ Within(RaceMaxIds)
    \/ \E w \in Workers, u \in RaceUsers, t \in db.trackers, week \in WeekStarts :
          EnsureWeekStart(w, u, t, week) /\ Within(RaceMaxIds)
    \/ \E w \in Workers, u \in RaceUsers, t \in db.trackers :
          EnsureBacklogStart(w, u, t) /\ Within(RaceMaxIds)
    \/ \E w \in Workers : EnsureInsert(w) /\ Within(RaceMaxIds)
    \/ \E w \in Workers : EnsureRead(w) /\ Within(RaceMaxIds)
    \/ \E w \in Workers : Return(w) /\ Within(RaceMaxIds)
    \/ \E u \in Users, name \in NameInputs, range \in RangeInputs :
          CreateTrackerForUser(u, name, range) /\ Within(RaceMaxIds)

SpecRace == Init /\ [][NextRace]_vars

----------------------------------------------------------------------------
(* Properties.  A property of one call is stated of the call made in any
   reachable store, with any of the inputs: the actions above make exactly
   these calls. *)

RowsOf(d) == <<d.trackers, d.classes, d.sessions>>

Eligible(d, t, w) ==
    {c \in ClassesOf(d, t.tracker_id) :
        /\ w + c.day_of_week >= t.start_date
        /\ w + c.day_of_week <= t.end_date}

SessionsAt(d, u, cid, day) ==
    {s \in d.sessions : s.user_id = u /\ s.class_id = cid /\ s.session_date = day}

EnsureWeek(d, u, t, w) ==
    ensure_sessions_for_week(d, u, t.tracker_id, w, t.start_date, t.end_date)

(* C1: for any user, tracker and week start, ensure_sessions_for_week called
   twice in a row leaves exactly one session for every (class of the tracker,
   week start + weekday) pair whose date lies in the tracker's window, and the
   rows of the store after the second call are those after the first. *)
C1_IdempotentMaterialization ==
    \A u \in Users, t \in db.trackers, w \in WeekStarts :
        LET d1 == EnsureWeek(db, u, t, w).db
            d2 == EnsureWeek(d1, u, t, w).db
        IN /\ RowsOf(d2) = RowsOf(d1)
           /\ \A c \in Eligible(db, t, w) :
                 Cardinality(SessionsAt(d2, u, c.class_id, w + c.day_of_week)) = 1

(* A store in which an ensure_sessions_for_week has been repeated: no class,
   and so no session, was ever deleted, yet the session counter is past the
   one session there is; the repeated insert was ignored, and the status the
   user had set survived it. *)
C1_Witness ==
    /\ db.seq.classes = Cardinality(db.classes)
    /\ db.seq.trackers = Cardinality(db.trackers)
    /\ Cardinality(db.sessions) = 1
    /\ db.seq.sessions = 2
    /\ \E s \in db.sessions : s.status = "ATTENDED"
    /\ \E u \in Users, t \in db.trackers, w \in WeekStarts :
          /\ Eligible(db, t, w) # {}
          /\ EnsureWeek(db, u, t, w).db.sessions = db.sessions

GlobalClassRows(d) ==
    {c \in d.classes : \E g \in FirstGlobal(d) : c.tracker_id = g.tracker_id}

Refused(d, r) == r.err = "PermissionError" /\ RowsOf(r.db) = RowsOf(d)

(* C8 as the specification states it: add_class, update_class, delete_class,
   clear_timetable and delete_tracker aimed at the global tracker or at one
   of its classes fail with a Permission error and leave the store alone. *)
C8_ReadOnlyEnforcement ==
    \A g \in FirstGlobal(db) :
        /\ \A f \in GoodForms :
              Refused(db, add_class(db, g.tracker_id, f[1], f[2], f[3], f[4]))
        /\ \A c \in GlobalClassRows(db), f \in GoodForms :
              Refused(db, update_class(db, c.class_id, f[1], f[2], f[3], f[4]))
        /\ \A c \in GlobalClassRows(db) : Refused(db, delete_class(db, c.class_id))
        /\ Refused(db, clear_timetable(db, g.tracker_id))
        /\ Refused(db, delete_tracker(db, g.tracker_id))

(* C9: after delete_class(c) no session of any user references c, c is not
   found any more, and every other class, every session of another class and
   every tracker is as it was. *)
C9_CascadeOnClassDeletion ==
    \A c \in ClassIds :
        LET d2 == delete_class(db, c).db
        IN /\ \A s \in d2.sessions : s.class_id # c
           /\ ClassById(d2, c) = {}
           /\ d2.classes = {x \in db.classes : x.class_id # c}
           /\ d2.sessions = {s \in db.sessions : s.class_id # c}
           /\ d2.trackers = db.trackers

(* A store where delete_class has sessions of both users to remove and a
   class with a session of its own to keep. *)
C9_Witness ==
    \E c \in ClassIds :
        LET d2 == delete_class(db, c).db
        IN /\ \A u \in Users : \E s \in db.sessions : s.class_id = c /\ s.user_id = u
           /\ \A s \in d2.sessions : s.class_id # c
           /\ d2.sessions # {}
           /\ d2.classes # {}

(* C10: after delete_tracker(t) the tracker, every class of it and every
   session, of whichever user, that references one of those classes are gone;
   every other tracker, class and session is as it was. *)
C10_CascadeOnTrackerDeletion ==
    \A t \in TrackerIds :
        LET d2 == delete_tracker(db, t).db
            gone == {c.class_id : c \in ClassesOf(db, t)}
        IN /\ TrackerById(d2, t) = {}
           /\ ClassesOf(d2, t) = {}
           /\ \A s \in d2.sessions : s.class_id \notin gone
           /\ d2.trackers = {x \in db.trackers : x.tracker_id # t}
           /\ d2.classes = {x \in db.classes : x.tracker_id # t}
           /\ d2.sessions = {s \in db.sessions : s.class_id \notin gone}

(* A store where delete_tracker has a class and sessions of both users to
   remove, and another tracker with a class of its own to keep. *)
C10_Witness ==
    \E t \in TrackerIds :
        LET d2 == delete_tracker(db, t).db
            gone == {c.class_id : c \in ClassesOf(db, t)}
        IN /\ \A u \in Users :
                 \E s \in db.sessions : s.class_id \in gone /\ s.user_id = u
           /\ \A s \in d2.sessions : s.class_id \notin gone
           /\ d2.trackers # {}
           /\ d2.classes # {}

----------------------------------------------------------------------------
(* Clones *)

GlobalId(d) == get_global_tracker(d).ret

(* The call finds user u's clone of the current global tracker in d. *)
FindsClone(d, u) ==
    LET r == get_or_create_user_clone(d, u)
    IN r.err = "none" /\ r.db = d

(* C3: two calls of get_or_create_user_clone for the same user and source
   return the same tracker id and leave one tracker between them: the call
   that follows a first call at once, and the call made after any step that
   neither deletes the clone the first call returned nor changes the source. *)
C3_CloneSingleton ==
    /\ [](\A u \in Users :
            LET r1 == get_or_create_user_clone(db, u)
                r2 == get_or_create_user_clone(r1.db, u)
            IN r1.err = "none" =>
                  /\ r2.err = "none"
                  /\ r2.ret = r1.ret
                  /\ r2.db = r1.db
                  /\ Cardinality(clone_lookup(r2.db, u, GlobalId(db))) = 1)
    /\ [][\A u \in Users :
            LET r1 == get_or_create_user_clone(db, u)
                r2 == get_or_create_user_clone(db', u)
            IN (/\ FindsClone(db, u)
                /\ TrackerById(db', r1.ret) # {}
                /\ FirstGlobal(db') # {}
                /\ GlobalId(db') = GlobalId(db))
               => (r2.err = "none" /\ r2.ret = r1.ret /\ r2.db = db')]_vars

(* User 1 has a clone, has since added a class to it and has a session on a
   class of it, and the call returns that clone and writes nothing. *)
C3_Witness ==
    \E t \in db.trackers :
        /\ db.seq.trackers = Cardinality(db.trackers)
        /\ t.owner_user_id = 1
        /\ t.cloned_from = GlobalId(db)
        /\ FirstGlobal(db) # {}
        /\ Cardinality(ClassesOf(db, t.tracker_id))
              > Cardinality(ClassesOf(db, GlobalId(db)))
        /\ \E s \in db.sessions, c \in ClassesOf(db, t.tracker_id) :
              s.user_id = 1 /\ s.class_id = c.class_id
        /\ get_or_create_user_clone(db, 1) = Ok(db, t.tracker_id)

ClassFields(c) == <<c.subject, c.day_of_week, c.start_time, c.end_time>>

(* The classes of tracker a in store da and those of tracker b in store db_
   are the same rows but for class_id and tracker_id, as many times each. *)
SameTimetable(da, a, db_, b) ==
    /\ Cardinality(ClassesOf(da, a)) = Cardinality(ClassesOf(db_, b))
    /\ \A f \in {ClassFields(c) : c \in ClassesOf(da, a) \cup ClassesOf(db_, b)} :
          Cardinality({c \in ClassesOf(da, a) : ClassFields(c) = f})
             = Cardinality({c \in ClassesOf(db_, b) : ClassFields(c) = f})

(* C4: when get_or_create_user_clone creates a tracker, the new tracker has
   the name and the window of the source, its classes are a copy of the
   source's classes (as many, with the same subject, weekday, start and end),
   and no session of any user references one of the new classes. *)
C4_CloneIsolation ==
    \A u \in Users, g \in FirstGlobal(db) :
        LET r == get_or_create_user_clone(db, u)
            new == TrackerById(r.db, r.ret)
        IN clone_lookup(db, u, g.tracker_id) = {} =>
              /\ r.err = "none"
              /\ TrackerById(db, r.ret) = {}
              /\ Cardinality(new) = 1
              /\ \A t \in new : /\ t.name = g.name
                                /\ t.start_date = g.start_date
                                /\ t.end_date = g.end_date
                                /\ t.owner_user_id = u
                                /\ t.cloned_from = g.tracker_id
              /\ SameTimetable(r.db, r.ret, db, g.tracker_id)
              /\ ClassesOf(r.db, r.ret) \cap db.classes = {}
              /\ \A s \in r.db.sessions, c \in ClassesOf(r.db, r.ret) :
                    s.class_id # c.class_id
              /\ r.db.sessions = db.sessions

(* A store where the call creates user 1's clone of a source that has a
   class off Monday and a session on it: the clone gets the class, not the
   session. *)
C4_Witness ==
    \E g \in FirstGlobal(db) :
        LET r == get_or_create_user_clone(db, 1)
        IN /\ clone_lookup(db, 1, g.tracker_id) = {}
           /\ db.seq.trackers = Cardinality(db.trackers)
           /\ \E s \in db.sessions, c \in ClassesOf(db, g.tracker_id) :
                 s.class_id = c.class_id /\ c.day_of_week # 0
           /\ IdsUsed(r.db) <= CloneMaxIds
           /\ ClassesOf(r.db, r.ret) # {}
           /\ SameTimetable(r.db, r.ret, db, g.tracker_id)
           /\ \A s \in r.db.sessions, c \in ClassesOf(r.db, r.ret) :
                 s.class_id # c.class_id

(* C7 as the specification states it: exactly one tracker is flagged global
   and it has no owner, and every other tracker has an owner, whatever
   create, clone, clear and delete-tracker calls are made. *)
C7_OneGlobalOthersOwned ==
    /\ Cardinality(GlobalRows(db)) = 1
    /\ \A t \in db.trackers :
          IF t.is_global = 1 THEN t.owner_user_id = NULL
          ELSE t.owner_user_id \in Users

----------------------------------------------------------------------------
(* Concurrent callers *)

EnsureOps == {"ensure_sessions_for_week", "ensure_sessions_up_to_today"}

(* The week starts a finished ensure call of worker w has gone through. *)
WeeksDone(w) ==
    LET first == IF loc[w].op = "ensure_sessions_for_week" THEN loc[w].w
                 ELSE IF loc[w].t = {} THEN loc[w].w + 7
                 ELSE monday_of((CHOOSE t \in loc[w].t : TRUE).start_date)
    IN {x \in first .. loc[w].end_monday : x % 7 = 0}

(* C2: whatever the interleaving of ensure_sessions_for_week and
   ensure_sessions_up_to_today calls, there is at most one session for a
   (user, class, date) triple, and once a call has returned there is exactly
   one for every eligible pair of every week it went through: of the inserts
   that race for a triple one makes the row and the others do nothing. *)
C2_OneSessionPerTriple ==
    /\ \A s1 \in db.sessions, s2 \in db.sessions :
          (/\ s1.user_id = s2.user_id
           /\ s1.class_id = s2.class_id
           /\ s1.session_date = s2.session_date) => s1 = s2
    /\ \A w \in Workers :
          (pc[w] = "done" /\ loc[w].op \in EnsureOps) =>
              \A t \in loc[w].t, week \in WeeksDone(w) :
                  \A c \in Eligible(db, t, week) :
                      Cardinality(SessionsAt(db, loc[w].user_id, c.class_id,
                                             week + c.day_of_week)) = 1

(* Two backlog calls for the same user and tracker are under way at once,
   each between its first week and its second: both have inserted for the
   first week, one row is there, and the insert that came second drew
   rowid 2 and was ignored. *)
C2_Witness ==
    /\ \A w \in Workers :
          /\ pc[w] = "ensure_read"
          /\ loc[w].op = "ensure_sessions_up_to_today"
          /\ loc[w].classes # <<>>
    /\ loc["w1"].user_id = loc["w2"].user_id
    /\ loc["w1"].t = loc["w2"].t
    /\ Cardinality(db.sessions) = 1
    /\ db.seq.sessions = 2

CloneCallDone(w) == pc[w] = "done" /\ loc[w].op = "get_or_create_user_clone"

(* C5 as the specification states it: two get_or_create_user_clone calls
   racing for a user with no clone yet both return, with the same tracker id. *)
C5_RacingClonesBothReturn ==
    (/\ CloneCallDone("w1")
     /\ CloneCallDone("w2")
     /\ loc["w1"].user_id = loc["w2"].user_id
     /\ loc["w1"].g = loc["w2"].g)
    => /\ loc["w1"].err = "none"
       /\ loc["w2"].err = "none"
       /\ loc["w1"].ret = loc["w2"].ret

(* C6, as the code has it: for an (owner, cloned_from) pair whose cloned_from
   is set there is at most one tracker, whatever get_or_create_user_clone
   and create_tracker_for_user calls are made, racing ones included. *)
C6_OneClonePerOwnerAndSource ==
    \A t1 \in db.trackers, t2 \in db.trackers :
        (/\ t1.cloned_from # NULL
         /\ t1.owner_user_id = t2.owner_user_id
         /\ t1.cloned_from = t2.cloned_from) => t1 = t2

(* Two calls have raced for one user's clone, both past the lookup: the
   index refused the second insert, one clone is there, and the user has a
   tracker of their own besides. *)
C6_Witness ==
    /\ CloneCallDone("w1")
    /\ CloneCallDone("w2")
    /\ \E w \in Workers : loc[w].err = "IntegrityError"
    /\ \E w \in Workers : loc[w].err = "none" /\ TrackerById(db, loc[w].ret) # {}
    /\ Cardinality({t \in db.trackers : t.cloned_from # NULL}) = 1
    /\ \E t \in db.trackers :
          t.owner_user_id = loc["w1"].user_id /\ t.cloned_from = NULL

(* C6 as the specification states it: at most one tracker for any
   (owner, cloned_from) pair, the pairs with no cloned_from included. *)
C6_OneTrackerPerPair ==
    \A t1 \in db.trackers, t2 \in db.trackers :
        (/\ t1.owner_user_id = t2.owner_user_id
         /\ t1.cloned_from = t2.cloned_from) => t1 = t2

----------------------------------------------------------------------------
(* SpecUndo: two browser sessions of user 1 on the tasks view of the user's
   clone, click by click. *)

ActorUser(a) == 1

OwnedTrackers(d, user_id) == {t \in d.trackers : t.owner_user_id = user_id}

InitUndo ==
    /\ db \in {get_or_create_user_clone(d, 1).db :
                  d \in {x \in InitDbs : x.classes # {}}}
    /\ today \in TodayInputs
    /\ pc = [w \in Workers |-> "idle"]
    /\ loc = [w \in Workers |-> NoLocals]
    /\ now = ClockAt1005(today)
    /\ undo_timetable = [a \in Actors |-> NoUndo]
    /\ last_attendance_action = [a \in Actors |-> NoAttendanceAction]
    /\ nav = [a \in Actors |-> NoNav]

(* Faulty variant: one slot pair for the whole process, so that a click of
   any session writes every actor's entries. *)
ClickedShared(a, r) ==
    /\ r.outcome \notin {"disabled", "absent"}
    /\ db' = r.db
    /\ undo_timetable' = [b \in Actors |-> r.undo_timetable]
    /\ last_attendance_action' = [b \in Actors |-> r.last_attendance_action]
    /\ UNCHANGED <<today, now, pc, loc, nav>>

(* The click is one that the page offers, and it lands in session a. *)
Clicked(a, r) ==
    /\ r.outcome \notin {"disabled", "absent"}
    /\ db' = r.db
    /\ undo_timetable' = [undo_timetable EXCEPT ![a] = r.undo_timetable]
    /\ last_attendance_action' =
          [last_attendance_action EXCEPT ![a] = r.last_attendance_action]
    /\ UNCHANGED <<today, now, pc, loc, nav>>

ClickUndoTimetable(a, t) ==
    Clicked(a, click_undo_timetable(db, undo_timetable[a], last_attendance_action[a],
                                    ActorUser(a), t, today))

ClickAdd(a, t, form) ==
    Clicked(a, click_add(db, undo_timetable[a], last_attendance_action[a],
                         ActorUser(a), t, form, today))

ClickSave(a, t, c, form) ==
    Clicked(a, click_save(db, undo_timetable[a], last_attendance_action[a],
                          ActorUser(a), t, c.class_id, form, today))

ClickDeleteClass(a, t, c) ==
    Clicked(a, click_delete_class(db, undo_timetable[a], last_attendance_action[a],
                                  ActorUser(a), t, c.class_id, today))

ClickConfirmClear(a, t) ==
    Clicked(a, click_confirm_clear(db, undo_timetable[a], last_attendance_action[a],
                                   ActorUser(a), t, today))

ClickMark(a, t, sid, status) ==
    Clicked(a, click_mark(db, undo_timetable[a], last_attendance_action[a],
                          ActorUser(a), t, sid, status, today, now))

ClickUndoAttendance(a, t) ==
    Clicked(a, click_undo_attendance(db, undo_timetable[a],
                                     last_attendance_action[a], ActorUser(a), t,
                                     today))

ClickApplyStatus(a, t, sid, status) ==
    Clicked(a, click_apply_status(db, undo_timetable[a], last_attendance_action[a],
                                  ActorUser(a), t, sid, status, today))

NextUndo ==
    \/ \E a \in Actors : \E t \in OwnedTrackers(db, ActorUser(a)) :
          ClickUndoTimetable(a, t) /\ Within(UndoMaxIds)
    \/ \E a \in Actors : \E t \in OwnedTrackers(db, ActorUser(a)), form \in AddForms :
          ClickAdd(a, t, form) /\ Within(UndoMaxIds)
    \/ \E a \in Actors : \E t \in OwnedTrackers(db, ActorUser(a)), form \in EditForms :
          \E c \in ClassesOf(db, t.tracker_id) :
              ClickSave(a, t, c, form) /\ Within(UndoMaxIds)
    \/ \E a \in Actors : \E t \in OwnedTrackers(db, ActorUser(a)) :
          \E c \in ClassesOf(db, t.tracker_id) :
              ClickDeleteClass(a, t, c) /\ Within(UndoMaxIds)
    \/ \E a \in Actors : \E t \in OwnedTrackers(db, ActorUser(a)) :
          ClickConfirmClear(a, t) /\ Within(UndoMaxIds)
    \/ \E a \in Actors : \E t \in OwnedTrackers(db, ActorUser(a)) :
          \E sid \in SessionIds, status \in MarkInputs :
              ClickMark(a, t, sid, status) /\ Within(UndoMaxIds)
    \/ \E a \in Actors : \E t \in OwnedTrackers(db, ActorUser(a)) :
          ClickUndoAttendance(a, t) /\ Within(UndoMaxIds)
    \/ \E a \in Actors : \E t \in OwnedTrackers(db, ActorUser(a)) :
          \E sid \in SessionIds, status \in Statuses :
              ClickApplyStatus(a, t, sid, status) /\ Within(UndoMaxIds)

SpecUndo == InitUndo /\ [][NextUndo]_vars

(* SpecUndoAdd: the clicks that add a class, mark its sessions and undo, with
   ids enough for a class added, materialized, marked and then undone. *)
NextUndoAdd ==
    \/ \E a \in Actors : \E t \in OwnedTrackers(db, ActorUser(a)) :
          ClickUndoTimetable(a, t) /\ Within(UndoAddMaxIds)
    \/ \E a \in Actors : \E t \in OwnedTrackers(db, ActorUser(a)), form \in AddForms :
          ClickAdd(a, t, form) /\ Within(UndoAddMaxIds)
    \/ \E a \in Actors : \E t \in OwnedTrackers(db, ActorUser(a)) :
          \E sid \in SessionIds, status \in MarkInputs :
              ClickMark(a, t, sid, status) /\ Within(UndoAddMaxIds)
    \/ \E a \in Actors : \E t \in OwnedTrackers(db, ActorUser(a)) :
          ClickUndoAttendance(a, t) /\ Within(UndoAddMaxIds)
    \/ \E a \in Actors : \E t \in OwnedTrackers(db, ActorUser(a)) :
          \E sid \in SessionIds, status \in Statuses :
              ClickApplyStatus(a, t, sid, status) /\ Within(UndoAddMaxIds)

SpecUndoAdd == InitUndo /\ [][NextUndoAdd]_vars

----------------------------------------------------------------------------
(* SpecCascade: the cascading deletes statement by statement, next to the
   materializer, add_class and the undo of a delete, on the trackers of
   user 1. *)

(* clear_timetable, and delete_tracker up to there: ids = SELECT class_id
   FROM classes WHERE tracker_id=?, read before the transaction begins. *)
ClearStart(w, t, op) ==
    /\ pc[w] = "idle"
    /\ Goto(w, "clear_delete",
            [NoLocals EXCEPT !.op = op, !.t = {t},
                             !.ids = {c.class_id : c \in ClassesOf(db, t.tracker_id)}])
    /\ UNCHANGED <<db, today, page>>

(* The two DELETEs of clear_timetable, committed together. *)
ClearDelete(w) ==
    /\ pc[w] = "clear_delete"
    /\ db' = clear_rows(db, (CHOOSE t \in loc[w].t : TRUE).tracker_id, loc[w].ids)
    /\ Goto(w, IF loc[w].op = "delete_tracker" THEN "tracker_delete" ELSE "done",
            loc[w])
    /\ UNCHANGED <<today, page>>

(* delete_tracker: DELETE FROM trackers WHERE tracker_id=?, a transaction of
   its own. *)
TrackerDelete(w) ==
    /\ pc[w] = "tracker_delete"
    /\ db' = [db EXCEPT !.trackers =
                 {t \in @ : t.tracker_id # (CHOOSE x \in loc[w].t : TRUE).tracker_id}]
    /\ Goto(w, "done", loc[w])
    /\ UNCHANGED <<today, page>>

NextCascade ==
    \/ \E w \in Workers, t \in OwnedTrackers(db, 1), week \in WeekStarts :
          EnsureWeekStart(w, 1, t, week) /\ Within(CascadeMaxIds)
    \/ \E w \in Workers : EnsureInsert(w) /\ Within(CascadeMaxIds)
    \/ \E w \in Workers, t \in OwnedTrackers(db, 1) :
          ClearStart(w, t, "clear_timetable") /\ Within(CascadeMaxIds)
    \/ \E w \in Workers, t \in OwnedTrackers(db, 1) :
          ClearStart(w, t, "delete_tracker") /\ Within(CascadeMaxIds)
    \/ \E w \in Workers : ClearDelete(w) /\ Within(CascadeMaxIds)
    \/ \E w \in Workers : TrackerDelete(w) /\ Within(CascadeMaxIds)
    \/ \E w \in Workers : Return(w) /\ Within(CascadeMaxIds)
    \/ \E t \in OwnedTrackers(db, 1), form \in AddForms :
          AddClass(t.tracker_id, form) /\ Within(CascadeMaxIds)
    \/ \E a \in Actors : \E t \in OwnedTrackers(db, ActorUser(a)) :
          \E c \in ClassesOf(db, t.tracker_id) :
              ClickDeleteClass(a, t, c) /\ Within(CascadeMaxIds)
    \/ \E a \in Actors : \E t \in OwnedTrackers(db, ActorUser(a)) :
          ClickUndoTimetable(a, t) /\ Within(CascadeMaxIds)

SpecCascade == InitUndo /\ [][NextCascade]_vars

(* C11 as the specification states it: every session references a class
   there is and every class references a tracker there is, in every state,
   those between the statements of concurrent calls included. *)
C11_ReferentialIntegrity ==
    /\ \A s \in db.sessions : ClassById(db, s.class_id) # {}
    /\ \A c \in db.classes : TrackerById(db, c.tracker_id) # {}

----------------------------------------------------------------------------
(* Undo *)

StatusOf(d, session_id) == {s.status : s \in {x \in d.sessions : x.session_id = session_id}}

(* The click "Undo Last Attendance Change" of the session whose page is r. *)
ThenUndoAttendance(r, a, t) ==
    click_undo_attendance(r.db, r.undo_timetable, r.last_attendance_action,
                          ActorUser(a), t, today)

(* C12: a status set from a prompt or from "Modify Past Attendance" and then
   undone, with nothing in between but the page's own rendering, leaves the
   session with the status it had before, whichever of the four that was and
   whichever the new one. *)
C12_UndoRestoresPriorStatus ==
    \A a \in Actors : \A t \in OwnedTrackers(db, ActorUser(a)), sid \in SessionIds :
        /\ \A status \in MarkInputs :
              LET r1 == click_mark(db, undo_timetable[a], last_attendance_action[a],
                                   ActorUser(a), t, sid, status, today, now)
                  r2 == ThenUndoAttendance(r1, a, t)
              IN r1.outcome = "none" =>
                    /\ StatusOf(r1.db, sid) = {status}
                    /\ r2.outcome = "none"
                    /\ StatusOf(r2.db, sid) = StatusOf(db, sid)
        /\ \A status \in Statuses :
              LET r1 == click_apply_status(db, undo_timetable[a],
                                           last_attendance_action[a], ActorUser(a),
                                           t, sid, status, today)
                  r2 == ThenUndoAttendance(r1, a, t)
              IN r1.outcome = "none" =>
                    /\ StatusOf(r1.db, sid) = {status}
                    /\ r2.outcome = "none"
                    /\ StatusOf(r2.db, sid) = StatusOf(db, sid)

(* A session that was MISSED has been set to ATTENDED by a1, whose entry
   holds the prior status, and the undo puts MISSED back. *)
C12_Witness ==
    LET la == last_attendance_action["a1"]
    IN /\ la.type = "attendance"
       /\ la.prev_status = "MISSED"
       /\ StatusOf(db, la.session_id) = {"ATTENDED"}
       /\ \E t \in OwnedTrackers(db, 1) :
             LET r == click_undo_attendance(db, undo_timetable["a1"], la, 1, t, today)
             IN /\ StatusOf(r.db, la.session_id) = {"MISSED"}
                /\ r.last_attendance_action = NoAttendanceAction

(* C13: while an actor has no pending timetable entry the timetable undo
   cannot be run (its button is disabled, and apply_undo_timetable on the
   empty slot raises before it opens the store), and while the actor has no
   pending attendance entry the attendance undo is not offered; either way
   the trackers, classes and sessions and both slots stay as they are. *)
C13_UndoUnavailable ==
    \A a \in Actors : \A t \in OwnedTrackers(db, ActorUser(a)) :
        /\ undo_timetable[a] = NoUndo =>
              LET r == click_undo_timetable(db, undo_timetable[a],
                                            last_attendance_action[a],
                                            ActorUser(a), t, today)
                  u == apply_undo_timetable(db, undo_timetable[a])
              IN /\ r.outcome = "disabled"
                 /\ r.db = db
                 /\ r.undo_timetable = NoUndo
                 /\ r.last_attendance_action = last_attendance_action[a]
                 /\ u.err = "AttributeError"
                 /\ u.db = db
        /\ last_attendance_action[a] = NoAttendanceAction =>
              LET r == click_undo_attendance(db, undo_timetable[a],
                                             last_attendance_action[a],
                                             ActorUser(a), t, today)
              IN /\ r.outcome = "absent"
                 /\ r.db = db
                 /\ r.undo_timetable = undo_timetable[a]
                 /\ r.last_attendance_action = NoAttendanceAction

(* a1 has nothing pending while a2 has both a timetable and an attendance
   entry pending, on a store with a session that is no longer PENDING. *)
C13_Witness ==
    /\ undo_timetable["a1"] = NoUndo
    /\ last_attendance_action["a1"] = NoAttendanceAction
    /\ undo_timetable["a2"] # NoUndo
    /\ last_attendance_action["a2"] # NoAttendanceAction
    /\ \E s \in db.sessions : s.status # "PENDING"
    /\ OwnedTrackers(db, 1) # {}

C15_UndoAddRemovesClassAndSessions ==
    \A a \in Actors :
        undo_timetable[a].type = "add" =>
            LET cid == undo_timetable[a].class_id
                u == apply_undo_timetable(db, undo_timetable[a])
            IN /\ u.err = "none"
               /\ u.db.classes = {c \in db.classes : c.class_id # cid}
               /\ u.db.sessions = {s \in db.sessions : s.class_id # cid}
               /\ u.db.trackers = db.trackers
               /\ \A t \in OwnedTrackers(db, ActorUser(a)) :
                     LET r == click_undo_timetable(db, undo_timetable[a],
                                                   last_attendance_action[a],
                                                   ActorUser(a), t, today)
                     IN /\ r.outcome = "none"
                        /\ r.undo_timetable = NoUndo
                        /\ ClassById(r.db, cid) = {}
                        /\ \A s \in r.db.sessions : s.class_id # cid
                        /\ r.db.classes = u.db.classes

(* a1's pending entry is the add of a class that has a session marked since,
   next to another class with a session of its own. *)
C15_Witness ==
    /\ undo_timetable["a1"].type = "add"
    /\ \E s \in db.sessions :
          /\ s.class_id = undo_timetable["a1"].class_id
          /\ s.status # "PENDING"
    /\ \E s \in db.sessions : s.class_id # undo_timetable["a1"].class_id
    /\ \E c \in db.classes : c.class_id = undo_timetable["a1"].class_id

(* C16: an edit of a class followed by the undo of the entry the edit left
   puts the class's subject, weekday, start and end back to what they were,
   under the same id and tracker, every other class and every session being
   as before the edit; and the same on the page: after "Save" and "Undo Last
   Timetable Change" the class row is the one before the edit. *)
C16_UndoEditRestoresClass ==
    \A a \in Actors : \A t \in OwnedTrackers(db, ActorUser(a)) :
        \A c \in ClassesOf(db, t.tracker_id), form \in EditForms :
            /\ LET e == update_class(db, c.class_id, form[1], form[2], form[3], form[4])
                   u == apply_undo_timetable(
                            e.db, [type |-> "edit", class_id |-> c.class_id,
                                   old |-> e.ret])
               IN e.err = "none" =>
                     /\ u.err = "none"
                     /\ ClassById(u.db, c.class_id) = {c}
                     /\ u.db.classes = db.classes
                     /\ u.db.sessions = db.sessions
                     /\ u.db.sessions = e.db.sessions
                     /\ u.db.trackers = db.trackers
            /\ LET r1 == click_save(db, undo_timetable[a], last_attendance_action[a],
                                    ActorUser(a), t, c.class_id, form, today)
                   r2 == click_undo_timetable(r1.db, r1.undo_timetable,
                                              r1.last_attendance_action,
                                              ActorUser(a), t, today)
               IN r1.outcome = "none" =>
                     /\ r2.outcome = "none"
                     /\ r2.undo_timetable = NoUndo
                     /\ ClassById(r2.db, c.class_id) = {c}
                     /\ r2.db.classes = db.classes

(* a1's pending entry is the edit of a class whose subject, weekday, start
   and end all differ from the ones the entry holds, the class having a
   session; the undo puts the four back and changes no session. *)
C16_Witness ==
    /\ undo_timetable["a1"].type = "edit"
    /\ \E c \in db.classes : \E o \in undo_timetable["a1"].old :
          /\ c.class_id = undo_timetable["a1"].class_id
          /\ c.class_id = o.class_id
          /\ c.tracker_id = o.tracker_id
          /\ c.subject # o.subject
          /\ c.day_of_week # o.day_of_week
          /\ c.start_time # o.start_time
          /\ c.end_time # o.end_time
          /\ \E s \in db.sessions : s.class_id = c.class_id
          /\ LET u == apply_undo_timetable(db, undo_timetable["a1"])
             IN /\ ClassById(u.db, c.class_id) = {o}
                /\ u.db.sessions = db.sessions

Other(a) == CHOOSE b \in Actors : b # a

(* C17: while an actor's pending entry is the delete of class c, the undo
   re-inserts c's row as it was (id, subject, weekday, start, end, tracker)
   next to the classes there are, without meeting an id in use and without
   bringing back a session; and "Confirm Delete Class" by one actor, "Add" by
   the other and then the first actor's undo leave c as it was, the added
   class under another id, and for c only PENDING sessions made after the
   delete. *)
C17_UndoDeleteReinsertsClass ==
    \A a \in Actors :
        /\ undo_timetable[a].type = "delete" =>
              \A o \in undo_timetable[a].old :
                 LET u == apply_undo_timetable(db, undo_timetable[a])
                 IN /\ u.err = "none"
                    /\ ClassById(db, o.class_id) = {}
                    /\ u.db.classes = db.classes \cup {o}
                    /\ u.db.sessions = db.sessions
                    /\ \A s \in u.db.sessions : s.class_id # o.class_id
                    /\ u.db.trackers = db.trackers
        /\ \A t \in OwnedTrackers(db, ActorUser(a)) :
              \A c \in ClassesOf(db, t.tracker_id), form \in AddForms :
                 LET b  == Other(a)
                     r1 == click_delete_class(db, undo_timetable[a],
                                              last_attendance_action[a],
                                              ActorUser(a), t, c.class_id, today)
                     r2 == click_add(r1.db, undo_timetable[b],
                                     last_attendance_action[b], ActorUser(b), t,
                                     form, today)
                     r3 == click_undo_timetable(r2.db, r1.undo_timetable,
                                                r1.last_attendance_action,
                                                ActorUser(a), t, today)
                 IN /\ ClassById(r1.db, c.class_id) = {}
                    /\ \A s \in r1.db.sessions : s.class_id # c.class_id
                    /\ r3.outcome = "none"
                    /\ ClassById(r3.db, c.class_id) = {c}
                    /\ r3.db.classes = r2.db.classes \cup {c}
                    /\ r2.outcome = "none" =>
                          /\ Cardinality(r2.db.classes) = Cardinality(db.classes)
                          /\ Cardinality(r3.db.classes) = Cardinality(db.classes) + 1
                    /\ \A s \in r3.db.sessions :
                          s.class_id = c.class_id =>
                              /\ s.status = "PENDING"
                              /\ s.session_id > db.seq.sessions

(* a1's pending entry is the delete of a class, a class of a later id exists
   and a2's pending entry is the add of it, and a session of another class
   is there; the undo re-inserts the row under its id with no session. *)
C17_Witness ==
    /\ undo_timetable["a1"].type = "delete"
    /\ undo_timetable["a2"].type = "add"
    /\ \E o \in undo_timetable["a1"].old :
          /\ ClassById(db, o.class_id) = {}
          /\ \E c \in db.classes :
                /\ c.class_id > o.class_id
                /\ c.class_id = undo_timetable["a2"].class_id
                /\ \E s \in db.sessions : s.class_id = c.class_id
          /\ db.seq.sessions > Cardinality(db.sessions)
          /\ LET u == apply_undo_timetable(db, undo_timetable["a1"])
             IN /\ u.err = "none"
                /\ ClassById(u.db, o.class_id) = {o}
                /\ \A s \in u.db.sessions : s.class_id # o.class_id

(* What actor b's undo of its own timetable entry does to store d. *)
ReversesOwnEntry(d, e, r) ==
    CASE e.type = "add" -> ClassById(r.db, e.class_id) = {}
      [] e.type = "edit" ->
            \A c \in ClassById(r.db, e.class_id) : \A o \in e.old :
                /\ c.subject = o.subject /\ c.day_of_week = o.day_of_week
                /\ c.start_time = o.start_time /\ c.end_time = o.end_time
      [] e.type = "delete" -> \A o \in e.old : ClassById(r.db, o.class_id) = {o}
      [] OTHER -> FALSE

(* No step changes the entries of more than one actor. *)
OneActorPerStep ==
    \E a \in Actors :
        \A b \in Actors \ {a} :
            /\ undo_timetable'[b] = undo_timetable[b]
            /\ last_attendance_action'[b] = last_attendance_action[b]

(* After a mutation by actor a, actor b's undo acts on b's own entry: with
   none pending b has no undo to run, and with one pending it reverses that
   one and leaves what a has just done. *)
UndoIsOwn ==
    \A a \in Actors : \A t \in OwnedTrackers(db, ActorUser(a)) :
        LET b == Other(a)
        IN /\ \A form \in AddForms :
                 LET r1 == click_add(db, undo_timetable[a], last_attendance_action[a],
                                     ActorUser(a), t, form, today)
                     r2 == click_undo_timetable(r1.db, undo_timetable[b],
                                                last_attendance_action[b],
                                                ActorUser(b), t, today)
                 IN r1.outcome = "none" =>
                       /\ ClassById(r2.db, r1.undo_timetable.class_id) # {}
                       /\ IF undo_timetable[b] = NoUndo
                          THEN r2.outcome = "disabled" /\ r2.db = r1.db
                          ELSE /\ r2.outcome = "none"
                               /\ ReversesOwnEntry(r1.db, undo_timetable[b], r2)
           /\ \A sid \in SessionIds, status \in Statuses :
                 LET r1 == click_apply_status(db, undo_timetable[a],
                                              last_attendance_action[a],
                                              ActorUser(a), t, sid, status, today)
                     r2 == click_undo_attendance(r1.db, undo_timetable[b],
                                                 last_attendance_action[b],
                                                 ActorUser(b), t, today)
                     lb == last_attendance_action[b]
                 IN r1.outcome = "none" =>
                       IF lb = NoAttendanceAction
                       THEN r2.outcome = "absent" /\ StatusOf(r2.db, sid) = {status}
                       ELSE /\ StatusOf(r2.db, lb.session_id) \subseteq {lb.prev_status}
                            /\ lb.session_id # sid => StatusOf(r2.db, sid) = {status}

(* C18: the undo entries are per actor.  A click of one actor, whether a
   mutation or an undo, leaves the other actor's timetable entry and
   attendance entry as they are, and an actor's undo reverses the entry of
   that actor's own last mutation, not the other actor's. *)
C18_UndoScopedPerActor ==
    [](UndoIsOwn) /\ [][OneActorPerStep]_vars

(* Both actors have a timetable entry pending, of different classes: a2's
   undo then removes the class a2 added and leaves the class a1 edited. *)
C18_Witness ==
    /\ undo_timetable["a1"].type = "edit"
    /\ undo_timetable["a2"].type = "add"
    /\ undo_timetable["a1"].class_id # undo_timetable["a2"].class_id
    /\ ClassById(db, undo_timetable["a1"].class_id) # {}
    /\ ClassById(db, undo_timetable["a2"].class_id) # {}
    /\ \E t \in OwnedTrackers(db, 1) :
          LET r == click_undo_timetable(db, undo_timetable["a2"],
                                        last_attendance_action["a2"], 1, t, today)
          IN /\ ClassById(r.db, undo_timetable["a2"].class_id) = {}
             /\ ClassById(r.db, undo_timetable["a1"].class_id)
                   = ClassById(db, undo_timetable["a1"].class_id)

----------------------------------------------------------------------------
(* SpecPrompts: the attendance prompts of user 1's clone at chosen instants,
   on a server whose local date is the IST date or, running on UTC, the date
   five and a half hours earlier. *)

(* The instant h:m:s of day in IST, in seconds. *)
ClockAt(day, h, m, sec) ==
    day * SecondsPerDay + (h * 60 + m) * SecondsPerMinute + sec

PromptClocks ==
    {ClockAt(2, 1, 4, 59), ClockAt(2, 1, 5, 0), ClockAt(2, 10, 4, 59),
     ClockAt(2, 10, 5, 0), ClockAt(7, 10, 4, 59), ClockAt(7, 10, 5, 0),
     ClockAt(8, 10, 5, 0)}

(* The server's local time minus IST, in seconds: a server on IST, one on UTC. *)
LocalOffsets == {0, 0 - 19800}

(* date.today() at the instant clock of IST on a server at offset off. *)
LocalDate(clock, off) == (clock + off) \div SecondsPerDay

RECURSIVE AddAll(_, _, _)
AddAll(d, tracker_id, forms) ==
    IF forms = <<>> THEN d
    ELSE AddAll(add_class(d, tracker_id, Head(forms)[1], Head(forms)[2],
                          Head(forms)[3], Head(forms)[4]).db,
                tracker_id, Tail(forms))

(* User 1's clone of the global tracker with the classes of PromptForms added. *)
PromptStores ==
    {AddAll(get_or_create_user_clone(d, 1).db, get_or_create_user_clone(d, 1).ret,
            PromptForms) : d \in {x \in InitDbs : x.classes # {}}}

InitPrompts ==
    /\ db \in PromptStores
    /\ now \in PromptClocks
    /\ today \in {LocalDate(now, off) : off \in LocalOffsets}
    /\ pc = [w \in Workers |-> "idle"]
    /\ loc = [w \in Workers |-> NoLocals]
    /\ undo_timetable = [a \in Actors |-> NoUndo]
    /\ last_attendance_action = [a \in Actors |-> NoAttendanceAction]
    /\ nav = [a \in Actors |-> NoNav]

(* The tasks view opened or reloaded. *)
ViewTasks(a, t) ==
    /\ db' = render_tasks(db, ActorUser(a), t, today)
    /\ UNCHANGED <<today, pc, loc, page>>

NextPrompts ==
    \/ \E a \in Actors : \E t \in OwnedTrackers(db, ActorUser(a)) :
          ViewTasks(a, t) /\ Within(PromptMaxIds)
    \/ \E a \in Actors : \E t \in OwnedTrackers(db, ActorUser(a)) :
          \E sid \in SessionIds, status \in MarkInputs :
              ClickMark(a, t, sid, status) /\ Within(PromptMaxIds)
    \/ \E a \in Actors : \E t \in OwnedTrackers(db, ActorUser(a)) :
          ClickUndoAttendance(a, t) /\ Within(PromptMaxIds)
    \/ \E a \in Actors : \E t \in OwnedTrackers(db, ActorUser(a)) :
          \E sid \in SessionIds, status \in Statuses :
              ClickApplyStatus(a, t, sid, status) /\ Within(PromptMaxIds)

SpecPrompts == InitPrompts /\ [][NextPrompts]_vars

(* The prompts of tracker t for user 1 in the current state. *)
PromptsNow(t) ==
    get_pending_prompts_up_to_now(db, 1, t.tracker_id, t.start_date, t.end_date,
                                  today, now)

Listed(p, s) == \E i \in 1..Len(p.ret) : p.ret[i].session_id = s.session_id

(* now >= (session date at the class's end time) + 5 minutes. *)
Due(s, c) ==
    now >= s.session_date * SecondsPerDay
             + parse_time_to_minutes(c.end_time) * SecondsPerMinute
             + POST_CLASS_BUFFER_MIN * SecondsPerMinute

(* C19: a session of the user and tracker is in the list of
   get_pending_prompts_up_to_now if and only if it is PENDING and now is at
   or after the session date at the class's end time plus five minutes. *)
C19_ListedIffPendingAndDue ==
    \A t \in OwnedTrackers(db, 1) :
        LET p == PromptsNow(t)
        IN \A s \in p.db.sessions : \A c \in ClassesOf(p.db, t.tracker_id) :
              (s.user_id = 1 /\ s.class_id = c.class_id) =>
                  (Listed(p, s) <=> (s.status = "PENDING" /\ Due(s, c)))

(* (date, end_time, start_time, subject) of a prompt. *)
OrderKey(r) ==
    <<r.session_date, parse_time_to_minutes(r.end_time),
      parse_time_to_minutes(r.start_time), SubjectRank(r.subject)>>

(* C20: in the list of get_pending_prompts_up_to_now the key (date, end_time,
   start_time, subject) of an entry is less than or equal to the key of the
   entry after it, and so no entry has an earlier date than the first. *)
C20_PromptsSortedOldestFirst ==
    \A t \in OwnedTrackers(db, 1) :
        LET out == PromptsNow(t).ret
        IN /\ \A i \in 1..(Len(out) - 1) :
                 ~LexLess(OrderKey(out[i + 1]), OrderKey(out[i]))
           /\ \A i \in 1..Len(out) : out[1].session_date <= out[i].session_date

(* One session has been answered, and the list holds prompts of two dates
   with, on one date, the class that starts later and ends earlier ahead of
   the class that starts earlier and ends later. *)
C20_Witness ==
    /\ \E s \in db.sessions : s.status # "PENDING"
    /\ \E t \in OwnedTrackers(db, 1) :
          LET out == PromptsNow(t).ret
          IN \E i \in 1..Len(out) : \E j \in 1..Len(out) : \E k \in 1..Len(out) :
                /\ i < j /\ j < k
                /\ out[i].session_date < out[j].session_date
                /\ out[j].session_date = out[k].session_date
                /\ parse_time_to_minutes(out[j].end_time)
                      < parse_time_to_minutes(out[k].end_time)
                /\ parse_time_to_minutes(out[j].start_time)
                      > parse_time_to_minutes(out[k].start_time)

----------------------------------------------------------------------------
(* Status model *)

(* C21: from whatever status a session of the acting user has, one
   status-setting step takes it to any of PENDING, ATTENDED, MISSED and
   CANCELLED, PENDING included: set_status does so for every session, and
   "Apply Status Change" for every session the user's page lists. *)
C21_FreeTransitions ==
    \A s \in db.sessions : \A status \in Statuses :
        /\ LET r == set_status(db, s.session_id, status)
           IN /\ r.err = "none"
              /\ StatusOf(r.db, s.session_id) = {status}
              /\ {x \in r.db.sessions : x.session_id # s.session_id}
                    = {x \in db.sessions : x.session_id # s.session_id}
        /\ \A a \in Actors : \A t \in OwnedTrackers(db, ActorUser(a)) :
              LET r == click_apply_status(db, undo_timetable[a],
                                          last_attendance_action[a], ActorUser(a),
                                          t, s.session_id, status, today)
              IN r.outcome = "none" => StatusOf(r.db, s.session_id) = {status}

(* A session of user 1 put back to PENDING from ATTENDED by a1's last
   change, which the page offers to change again. *)
C21_Witness ==
    /\ \E s \in db.sessions :
          s.session_id = last_attendance_action["a1"].session_id /\ s.user_id = 1
    /\ last_attendance_action["a1"].prev_status = "ATTENDED"
    /\ StatusOf(db, last_attendance_action["a1"].session_id) = {"PENDING"}
    /\ \E t \in OwnedTrackers(db, 1) :
          click_apply_status(db, undo_timetable["a1"], last_attendance_action["a1"],
                             1, t, last_attendance_action["a1"].session_id,
                             "MISSED", today).outcome = "none"

(* C22 as the specification states it: set_status called for user u on a
   session of another user fails with a Permission error and leaves the
   session's status as it was.  set_status takes no user: the call is the
   same whoever makes it. *)
C22_ForeignStatusRefused ==
    \A s \in db.sessions : \A u \in Users \ {s.user_id} : \A status \in Statuses :
        LET r == set_status(db, s.session_id, status)
        IN /\ r.err = "PermissionError"
           /\ StatusOf(r.db, s.session_id) = {s.status}

----------------------------------------------------------------------------
(* SpecStats: the statistics of user 1's clone while user 1 answers the
   sessions of the backlog; user 2 has sessions on the same classes. *)

RECURSIVE SetAll(_, _, _)
SetAll(d, ids, status) ==
    IF ids = {} THEN d
    ELSE LET i == CHOOSE x \in ids : TRUE
         IN SetAll(set_status(d, i, status).db, ids \ {i}, status)

(* The clone with the classes of StatsForms, user 2's sessions of the first
   week made and marked ATTENDED, then user 1's backlog made. *)
StatsStore(d, day) ==
    LET c0 == get_or_create_user_clone(d, 1)
        d1 == AddAll(c0.db, c0.ret, StatsForms)
        t  == CHOOSE x \in d1.trackers : x.tracker_id = c0.ret
        d2 == ensure_sessions_for_week(d1, 2, t.tracker_id, monday_of(t.start_date),
                                       t.start_date, t.end_date).db
        d3 == SetAll(d2, {s.session_id : s \in d2.sessions}, "ATTENDED")
    IN ensure_sessions_up_to_today(d3, 1, t.tracker_id, t.start_date, t.end_date,
                                   day).db

InitStats ==
    /\ today \in TodayInputs
    /\ db \in {StatsStore(d, today) : d \in {x \in InitDbs : x.classes # {}}}
    /\ pc = [w \in Workers |-> "idle"]
    /\ loc = [w \in Workers |-> NoLocals]
    /\ now = ClockAt1005(today)
    /\ undo_timetable = [a \in Actors |-> NoUndo]
    /\ last_attendance_action = [a \in Actors |-> NoAttendanceAction]
    /\ nav = [a \in Actors |-> NoNav]

NextStats ==
    \E s \in db.sessions, status \in Statuses :
        s.user_id = 1 /\ SetStatus(s.session_id, status)

SpecStats == InitStats /\ [][NextStats]_vars

(* C23: course_stats(1, t) has one row for each subject with a session of
   user 1 in t, in subject order; its Attended, Missed and Cancelled are the
   numbers of user 1's sessions of the subject in t with that status, PENDING
   sessions and other users' sessions counted nowhere; Pct is
   attended / (attended + missed) * 100 to the nearest hundredth, 0.00 when
   attended + missed = 0, and 75.00 for 3 attended, 1 missed, 2 cancelled. *)
C23_CourseStats ==
    \A t \in OwnedTrackers(db, 1) :
        LET out == course_stats(db, 1, t.tracker_id)
            mine(sub, status) ==
                {s \in db.sessions :
                    /\ s.user_id = 1 /\ s.status = status
                    /\ \E c \in db.classes :
                          /\ c.class_id = s.class_id /\ c.tracker_id = t.tracker_id
                          /\ c.subject = sub}
        IN /\ \A i \in 1..Len(out) :
                 LET r == out[i]
                     denom == r.Attended + r.Missed
                 IN /\ r.Attended = Cardinality(mine(r.Course, "ATTENDED"))
                    /\ r.Missed = Cardinality(mine(r.Course, "MISSED"))
                    /\ r.Cancelled = Cardinality(mine(r.Course, "CANCELLED"))
                    /\ denom = 0 => r.Pct = 0
                    /\ denom > 0 =>
                          /\ 2 * (r.Pct * denom - r.Attended * 10000) <= denom
                          /\ 2 * (r.Attended * 10000 - r.Pct * denom) <= denom
                    /\ (r.Attended = 3 /\ r.Missed = 1 /\ r.Cancelled = 2)
                          => r.Pct = 7500
           /\ \A i \in 1..(Len(out) - 1) :
                 SubjectRank(out[i].Course) < SubjectRank(out[i + 1].Course)
           /\ {out[i].Course : i \in 1..Len(out)}
                 = {c.subject : c \in {x \in ClassesOf(db, t.tracker_id) :
                       \E s \in db.sessions : s.user_id = 1 /\ s.class_id = x.class_id}}

(* Math with 3 attended, 1 missed and 2 cancelled sessions of user 1 shows
   75.00, Phys with nothing attended or missed shows 0.00, and user 2's
   attended sessions of Math are there. *)
C23_Witness ==
    \E t \in OwnedTrackers(db, 1) :
        LET out == course_stats(db, 1, t.tracker_id)
        IN /\ Len(out) = 2
           /\ out[1] = [Course |-> "Math", Attended |-> 3, Missed |-> 1,
                        Cancelled |-> 2, Pct |-> 7500]
           /\ out[2].Course = "Phys" /\ out[2].Attended + out[2].Missed = 0
           /\ out[2].Cancelled = 1 /\ out[2].Pct = 0
           /\ \E s \in db.sessions : s.user_id = 2 /\ s.status = "ATTENDED"

----------------------------------------------------------------------------
(* SpecBacklog: the store under the calls that make sessions, answer them
   and edit the classes they belong to, nothing being deleted. *)
NextBacklog ==
    \/ \E t \in TrackerIds, form \in GoodForms :
          AddClass(t, form) /\ Within(BacklogMaxIds)
    \/ \E c \in ClassIds, form \in EditForms :
          UpdateClass(c, form) /\ Within(BacklogMaxIds)
    \/ \E u \in Users, t \in db.trackers, w \in WeekStarts :
          EnsureSessionsForWeek(u, t, w) /\ Within(BacklogMaxIds)
    \/ \E sid \in SessionIds, status \in Statuses :
          SetStatus(sid, status) /\ Within(BacklogMaxIds)

SpecBacklog == Init /\ [][NextBacklog]_vars

EnsureBacklog(d, u, t, day) ==
    ensure_sessions_up_to_today(d, u, t.tracker_id, t.start_date, t.end_date, day).db

(* (user, class, date) of the sessions. *)
Keys(d) == {<<s.user_id, s.class_id, s.session_date>> : s \in d.sessions}

(* The dates of class c from the tracker's start to min(day, tracker end). *)
BacklogDates(t, c, day) ==
    {x \in t.start_date..Min({day, t.end_date}) : x % 7 = c.day_of_week}

(* C24: after ensure_sessions_up_to_today for user u and tracker t there is
   a session (u, c, d) for every class c of t and every date d from the
   tracker's start to min(today, tracker end) that falls on c's weekday; with
   today before the tracker's start the store is left as it is. *)
C24_BacklogComplete ==
    \A u \in Users, t \in db.trackers, day \in BacklogDays :
        LET d2 == EnsureBacklog(db, u, t, day)
        IN /\ \A c \in ClassesOf(db, t.tracker_id) :
                 \A x \in BacklogDates(t, c, day) :
                    <<u, c.class_id, x>> \in Keys(d2)
           /\ day < t.start_date => d2 = db

(* A tracker with a Monday and a Wednesday class, the first week's session of
   user 1 made and the second week's not: the backlog up to day 8 adds it. *)
C24_Witness ==
    \E t \in db.trackers :
        /\ \E c \in ClassesOf(db, t.tracker_id) : c.day_of_week = 0
        /\ \E c \in ClassesOf(db, t.tracker_id) :
              c.day_of_week = 2 /\ <<1, c.class_id, 2>> \in Keys(db)
        /\ \E c \in ClassesOf(db, t.tracker_id) :
              /\ <<1, c.class_id, 7>> \notin Keys(db)
              /\ <<1, c.class_id, 7>> \in Keys(EnsureBacklog(db, 1, t, 8))
        /\ Keys(EnsureBacklog(db, 1, t, 4)) = Keys(db)
        /\ EnsureBacklog(db, 1, t, 0) = db

(* The sessions of user u on the classes of tracker t. *)
SessionsOf(d, u, t) ==
    {s \in d.sessions :
        s.user_id = u /\ \E c \in ClassesOf(d, t.tracker_id) : c.class_id = s.class_id}

KeysOf(d, u, t) ==
    {<<s.user_id, s.class_id, s.session_date>> : s \in SessionsOf(d, u, t)}

(* The store without any session of user u on tracker t. *)
Unmaterialized(d, u, t) == [d EXCEPT !.sessions = @ \ SessionsOf(d, u, t)]

(* C25: ensure_sessions_up_to_today from a store that holds some of the
   sessions already, in whatever statuses, ends with the keys
   (user, class, date) it ends with from the store that holds none, next to
   the keys that were there; the sessions that were there stay as they are,
   status included, and the ones it adds are PENDING. *)
C25_BacklogFromPartialState ==
    \A u \in Users, t \in db.trackers, day \in BacklogDays :
        LET d2 == EnsureBacklog(db, u, t, day)
            e2 == EnsureBacklog(Unmaterialized(db, u, t), u, t, day)
        IN /\ KeysOf(d2, u, t) = KeysOf(e2, u, t) \cup KeysOf(db, u, t)
           /\ KeysOf(db, u, t) \subseteq KeysOf(e2, u, t)
                 => KeysOf(d2, u, t) = KeysOf(e2, u, t)
           /\ db.sessions \subseteq d2.sessions
           /\ \A s \in d2.sessions \ db.sessions : s.status = "PENDING"
           /\ Cardinality(KeysOf(d2, u, t)) = Cardinality(SessionsOf(d2, u, t))

(* User 1 has one session of the backlog, answered ATTENDED, and lacks
   others: the call adds them and the answered one stays ATTENDED. *)
C25_Witness ==
    \E t \in db.trackers :
        LET d2 == EnsureBacklog(db, 1, t, 8)
        IN /\ \E s \in SessionsOf(db, 1, t) : s.status = "ATTENDED"
           /\ KeysOf(db, 1, t) \subseteq KeysOf(EnsureBacklog(Unmaterialized(db, 1, t), 1, t, 8), 1, t)
           /\ Cardinality(KeysOf(d2, 1, t)) >= Cardinality(KeysOf(db, 1, t)) + 2
           /\ \E s \in SessionsOf(d2, 1, t) : s.status = "ATTENDED"

-----------------------------------------------------------------------------
(* SpecWindow: two trackers of different windows, their classes added and
   moved to other weekdays, and their weeks materialized for both users. *)
NextWindow ==
    \/ \E u \in Users :
          CreateTrackerForUser(u, "Lab", LaterRange) /\ Within(WindowMaxIds)
    \/ \E t \in TrackerIds, form \in GoodForms :
          AddClass(t, form) /\ Within(WindowMaxIds)
    \/ \E c \in ClassIds, form \in EditForms :
          UpdateClass(c, form) /\ Within(WindowMaxIds)
    \/ \E u \in Users, t \in db.trackers, w \in WeekStarts :
          EnsureSessionsForWeek(u, t, w) /\ Within(WindowMaxIds)

SpecWindow == Init /\ [][NextWindow]_vars

-----------------------------------------------------------------------------
(* Clipping. *)

InWindow(t, day) == t.start_date <= day /\ day <= t.end_date

(* The sessions a call of ensure_sessions_for_week adds to store d. *)
AddedByWeek(d, u, t, w) ==
    ensure_sessions_for_week(d, u, t.tracker_id, w, t.start_date, t.end_date).db.sessions
        \ d.sessions

(* C26: ensure_sessions_for_week creates a session of a class only on the
   date week_start + day_of_week and only when that date lies in
   [start_date, end_date] of the tracker; a class whose date of the week is
   outside the window gets no session from the call, on the boundary or
   elsewhere. In every reachable state the date of every session lies in the
   window of the tracker of its class. *)
C26_SessionsWithinWindow ==
    /\ \A s \in db.sessions, c \in db.classes, t \in db.trackers :
          (s.class_id = c.class_id /\ c.tracker_id = t.tracker_id)
              => InWindow(t, s.session_date)
    /\ \A u \in Users, t \in db.trackers, w \in WeekStarts :
          /\ \A s \in AddedByWeek(db, u, t, w) :
                /\ s.user_id = u
                /\ InWindow(t, s.session_date)
                /\ \E c \in ClassesOf(db, t.tracker_id) :
                      /\ c.class_id = s.class_id
                      /\ s.session_date = w + c.day_of_week
          /\ \A c \in ClassesOf(db, t.tracker_id) :
                ~InWindow(t, w + c.day_of_week)
                    => \A s \in AddedByWeek(db, u, t, w) : s.class_id # c.class_id

(* A user for whom both weeks of a tracker were materialized: the Monday
   class has its session of the second week and none of the first, whose
   Monday is before start_date; the Wednesday class has its session of the
   first week and none of the second, whose Wednesday is after end_date. *)
C26_Witness ==
    \E u \in Users, t \in db.trackers :
        \E c1, c2 \in ClassesOf(db, t.tracker_id) :
            /\ ~InWindow(t, 0 + c1.day_of_week) /\ InWindow(t, 7 + c1.day_of_week)
            /\ InWindow(t, 0 + c2.day_of_week) /\ ~InWindow(t, 7 + c2.day_of_week)
            /\ {s.session_date : s \in {x \in db.sessions :
                    x.user_id = u /\ x.class_id = c1.class_id}} = {7 + c1.day_of_week}
            /\ {s.session_date : s \in {x \in db.sessions :
                    x.user_id = u /\ x.class_id = c2.class_id}} = {0 + c2.day_of_week}

-----------------------------------------------------------------------------
(* Editing a class. *)

(* The forms an edit is tried with: accepted and refused ones. *)
AllForms == GoodForms \cup EditForms \cup BadForms

(* C27: update_class, whatever subject, weekday and times it is given and
   whether it accepts or refuses them, leaves the sessions as they were: none
   deleted, none added, each with its id, user, class, date and status; the
   class keeps its id and its tracker, so the sessions made before the edit
   still belong to it. *)
C27_EditKeepsSessions ==
    \A c \in db.classes, form \in AllForms :
        LET r == update_class(db, c.class_id, form[1], form[2], form[3], form[4])
        IN /\ r.db.sessions = db.sessions
           /\ r.db.seq = db.seq
           /\ r.db.trackers = db.trackers
           /\ {x.class_id : x \in r.db.classes} = {x.class_id : x \in db.classes}
           /\ \A x \in ClassById(r.db, c.class_id) : x.tracker_id = c.tracker_id
           /\ \A s \in db.sessions :
                 s.class_id = c.class_id => ClassById(r.db, s.class_id) # {}

(* An answered session made for the weekday the class had before an edit: the
   class is now on another weekday and the session is still its own. *)
C27_Witness ==
    \E s \in db.sessions, c \in db.classes :
        /\ s.class_id = c.class_id
        /\ s.status \in {"ATTENDED", "MISSED", "CANCELLED"}
        /\ s.session_date % 7 # c.day_of_week

-----------------------------------------------------------------------------
(* Class validation. *)

Minutes(hhmm) == parse_time_to_minutes(hhmm)

(* What the forms may hold that a class must not: no subject once stripped,
   or an end that is not after the start. *)
FormRefused(form) == Strip(form[1]) = "" \/ Minutes(form[4]) <= Minutes(form[3])

WellFormed(c) ==
    /\ c.subject # "" /\ Strip(c.subject) = c.subject
    /\ c.day_of_week \in 0..6
    /\ Minutes(c.end_time) > Minutes(c.start_time)
    /\ normalize_time(c.start_time) = c.start_time
    /\ normalize_time(c.end_time) = c.end_time

(* C28: add_class and update_class given a subject that is empty once
   stripped, or an end time not after the start time, raise ValueError and
   leave the store as it was; given anything else they raise nothing. The
   Add and Save buttons then leave the session's undo entry as it was, and the
   store as a plain run of the page leaves it. Every class of every reachable
   store has a stripped non-empty subject, a weekday in 0..6, canonical times
   and an end after its start. *)
C28_ClassValidation ==
    /\ \A c \in db.classes : WellFormed(c)
    /\ \A form \in AllForms \cup AddForms :
          /\ \A tid \in TrackerIds :
                LET r == add_class(db, tid, form[1], form[2], form[3], form[4])
                IN IF FormRefused(form)
                   THEN r.err = "ValueError" /\ r.db = db
                   ELSE r.err = "none" /\ \A c \in r.db.classes : WellFormed(c)
          /\ \A cid \in ClassIds :
                LET r == update_class(db, cid, form[1], form[2], form[3], form[4])
                IN IF FormRefused(form)
                   THEN r.err = "ValueError" /\ r.db = db
                   ELSE r.err = "none" /\ \A c \in r.db.classes : WellFormed(c)
          /\ \A a \in Actors : \A t \in OwnedTrackers(db, ActorUser(a)) :
                FormRefused(form) =>
                    LET plain == render_tasks(db, ActorUser(a), t, today)
                        add == click_add(db, undo_timetable[a], last_attendance_action[a],
                                         ActorUser(a), t, form, today)
                    IN /\ add.outcome = "ValueError"
                       /\ add.undo_timetable = undo_timetable[a]
                       /\ add.db = plain
                       /\ \A c \in ClassesOf(db, t.tracker_id) :
                             LET save == click_save(db, undo_timetable[a],
                                                    last_attendance_action[a],
                                                    ActorUser(a), t, c.class_id, form,
                                                    today)
                             IN /\ save.outcome = "ValueError"
                                /\ save.undo_timetable = undo_timetable[a]
                                /\ save.db = plain

(* A session holding the undo entry of an edit, on a page whose tracker has a
   class: the refused forms meet an entry that they must keep. *)
C28_Witness ==
    \E a \in Actors :
        /\ undo_timetable[a].type = "edit"
        /\ \E t \in OwnedTrackers(db, ActorUser(a)) : ClassesOf(db, t.tracker_id) # {}
        /\ \E form \in AllForms : FormRefused(form)

-----------------------------------------------------------------------------
(* What leaves the answers alone. *)

(* Every session of the store is in d2 as it is: id, user, class, date, status. *)
SessionsKept(d2) == db.sessions \subseteq d2.sessions

(* The entry the Save button leaves for the edit r of class cid. *)
EditEntry(cid, r) == [type |-> "edit", class_id |-> cid, old |-> r.ret]

(* C29: ensure_sessions_for_week, ensure_sessions_up_to_today,
   get_or_create_user_clone, add_class, update_class and apply_undo_timetable
   on the entry of an edit leave every session that exists with the status it
   has; a week materialized again over answered sessions gives none of them
   back as PENDING. Of the calls on the store only set_status changes the
   status of a session. *)
C29_StatusOnlyBySetStatus ==
    /\ \A u \in Users, t \in db.trackers :
          /\ \A w \in WeekStarts :
                SessionsKept(ensure_sessions_for_week(db, u, t.tracker_id, w,
                                                      t.start_date, t.end_date).db)
          /\ \A day \in BacklogDays : SessionsKept(EnsureBacklog(db, u, t, day))
    /\ \A u \in Users : SessionsKept(get_or_create_user_clone(db, u).db)
    /\ \A form \in AllForms :
          /\ \A tid \in TrackerIds :
                SessionsKept(add_class(db, tid, form[1], form[2], form[3], form[4]).db)
          /\ \A cid \in ClassIds :
                LET r == update_class(db, cid, form[1], form[2], form[3], form[4])
                IN /\ SessionsKept(r.db)
                   /\ (r.err = "none" /\ r.ret # {})
                         => SessionsKept(apply_undo_timetable(r.db, EditEntry(cid, r)).db)
    /\ \A s \in db.sessions, status \in Statuses :
          set_status(db, s.session_id, status).db.sessions
              = (db.sessions \ {s}) \cup {[s EXCEPT !.status = status]}

(* An answered session of a class whose week was materialized again: the
   session counter has gone past the sessions there are, an insert having been
   ignored, and the answer is still there. *)
C29_Witness ==
    \E s \in db.sessions, c \in db.classes, t \in db.trackers :
        /\ s.status \in {"ATTENDED", "MISSED", "CANCELLED"}
        /\ s.class_id = c.class_id /\ c.tracker_id = t.tracker_id
        /\ s.session_date = monday_of(s.session_date) + c.day_of_week
        /\ db.seq.sessions > Cardinality(db.sessions)

-----------------------------------------------------------------------------
(* The statuses. *)

(* Values the status column must not take. *)
OtherStatuses == {"LATE", "pending", ""}

(* C30: the status of every session of every reachable store is PENDING,
   ATTENDED, MISSED or CANCELLED; every session that ensure_sessions_for_week
   or ensure_sessions_up_to_today adds is PENDING; set_status with any other
   value raises IntegrityError and leaves the store as it was. *)
C30_StatusDomain ==
    /\ \A s \in db.sessions : s.status \in Statuses
    /\ \A u \in Users, t \in db.trackers :
          /\ \A w \in WeekStarts :
                \A s \in AddedByWeek(db, u, t, w) : s.status = "PENDING"
          /\ \A day \in BacklogDays :
                \A s \in EnsureBacklog(db, u, t, day).sessions \ db.sessions :
                    s.status = "PENDING"
    /\ \A s \in db.sessions, status \in OtherStatuses :
          LET r == set_status(db, s.session_id, status)
          IN r.err = "IntegrityError" /\ r.db = db

(* Sessions answered ATTENDED and MISSED, next to a tracker with a class whose
   sessions of some week are yet to be made. *)
C30_Witness ==
    /\ {"ATTENDED", "MISSED"} \subseteq {s.status : s \in db.sessions}
    /\ \E u \in Users, t \in db.trackers, w \in WeekStarts :
          AddedByWeek(db, u, t, w) # {}

-----------------------------------------------------------------------------
(* init_db run again. *)

(* Store d with the trackers of S flagged global besides those that are. *)
FlagGlobal(d, S) ==
    [d EXCEPT !.trackers = {IF t.tracker_id \in S THEN [t EXCEPT !.is_global = 1]
                            ELSE t : t \in @}]

GlobalIds(d) == {t.tracker_id : t \in GlobalRows(d)}

UserOwned(d) == {t \in d.trackers : t.is_global = 0 /\ t.owner_user_id \in Users}

(* After init_db on store d exactly one tracker is flagged global, and of
   several flagged ones it is the one of lowest id. *)
OneGlobalAfter(d) ==
    LET r == init_db(d, today).db
    IN /\ Cardinality(GlobalRows(r)) = 1
       /\ Cardinality(GlobalRows(d)) > 1 => GlobalIds(r) = {Min(GlobalIds(d))}

(* init_db run on its own result changes nothing. *)
SecondRunNoOp(d) ==
    LET r == init_db(d, today).db
    IN init_db(r, today).db = r

(* init_db leaves every tracker a user owns, and all classes and sessions. *)
OwnedUntouched(d) ==
    LET r == init_db(d, today).db
    IN /\ UserOwned(d) \subseteq r.trackers
       /\ r.classes = d.classes
       /\ r.sessions = d.sessions

(* C31 as the specification states it: from any store, with any trackers
   flagged global, init_db leaves exactly one global tracker, the lowest-id one
   of those flagged; a second run changes nothing; and init_db alters no
   ownership, class or session of a tracker that a user owns. *)
C31_InitDbReasserts ==
    \A S \in SUBSET TrackerIds :
        /\ OneGlobalAfter(FlagGlobal(db, S))
        /\ SecondRunNoOp(FlagGlobal(db, S))
        /\ OwnedUntouched(FlagGlobal(db, S))

-----------------------------------------------------------------------------
(* Visibility of trackers. *)

OwnedIds(d, u) == {t.tracker_id : t \in OwnedTrackers(d, u)}

(* C32: list_user_trackers(u), when it returns, returns the ids of the
   trackers u owns and of no other tracker: u's clone of the global tracker is
   among them, made by the call if it was missing; the global tracker and the
   trackers of the other user are not. It raises only when no tracker is
   global, and then writes nothing. get_tracker_for_user(u, t) returns the row
   of t when u owns t and no row otherwise. *)
C32_TrackerVisibility ==
    \A u \in Users :
        LET r == list_user_trackers(db, u)
        IN /\ r.err = "none" =>
                /\ r.ret \subseteq {t.tracker_id : t \in r.db.trackers}
                /\ \A t \in r.db.trackers :
                      t.tracker_id \in r.ret
                          <=> (t.owner_user_id = u /\ t.is_global = 0)
                /\ \E t \in r.db.trackers :
                      /\ t.tracker_id \in r.ret
                      /\ t.cloned_from = GlobalId(db)
                /\ OwnedIds(db, u) \subseteq r.ret
                /\ Cardinality(r.ret \ OwnedIds(db, u)) <= 1
           /\ r.err # "none" => (FirstGlobal(db) = {} /\ r.db = db)
           /\ \A t \in db.trackers :
                 get_tracker_for_user(db, u, t.tracker_id)
                     = IF t.owner_user_id = u THEN {t} ELSE {}

(* User 1 owns the clone and a tracker of their own making; user 2 owns a
   tracker and has no clone yet, so the call for user 2 makes it. *)
C32_Witness ==
    /\ FirstGlobal(db) # {}
    /\ Cardinality(OwnedIds(db, 1)) >= 2
    /\ clone_lookup(db, 1, GlobalId(db)) # {}
    /\ OwnedIds(db, 2) # {}
    /\ clone_lookup(db, 2, GlobalId(db)) = {}

-----------------------------------------------------------------------------
(* SpecDrain: the clock stands still and a browser session of user 1 answers
   the first prompt of the list, again and again, for as long as there is
   one. *)

(* The session ids of the prompts of tracker t for user 1 in store d, in the
   order of the list. *)
PromptIdsOf(d, t) ==
    LET p == get_pending_prompts_up_to_now(d, 1, t.tracker_id, t.start_date,
                                           t.end_date, today, now).ret
    IN [i \in 1..Len(p) |-> p[i].session_id]

PromptIds(t) == PromptIdsOf(db, t)

AnswerFirst(a, t, status) ==
    /\ PromptsNow(t).ret # <<>>
    /\ ClickMark(a, t, PromptsNow(t).ret[1].session_id, status)

NextDrain ==
    \/ \E a \in Actors : \E t \in OwnedTrackers(db, ActorUser(a)), status \in MarkInputs :
          AnswerFirst(a, t, status)

NoPrompts == \A t \in OwnedTrackers(db, 1) : PromptsNow(t).ret = <<>>

(* The actor keeps answering: weak fairness of NextDrain, WF_vars(NextDrain),
   written out.  NextDrain is enabled exactly when some prompt is listed (the
   first prompt has its three buttons, and an answer changes its status), so
   ENABLED <<NextDrain>>_vars is ~NoPrompts. *)
KeepsAnswering == []<>NoPrompts \/ []<><<NextDrain>>_vars

SpecDrain == InitPrompts /\ [][NextDrain]_vars /\ KeepsAnswering

(* C33: with the clock standing still and the first listed prompt answered
   ATTENDED, MISSED or CANCELLED again and again, every listed session is
   PENDING, so an answered one is not in the list while it keeps its answer;
   each answer takes the first session off the list and leaves the rest of the
   list as it was, in its order; and the list is empty after finitely many
   answers. *)
C33_OldestFirstDraining ==
    /\ [](\A t \in OwnedTrackers(db, 1) : \A s \in db.sessions :
            Listed(PromptsNow(t), s) => s.status = "PENDING")
    /\ [][\A t \in OwnedTrackers(db, 1) :
            PromptsNow(t).ret # <<>> =>
                /\ PromptIdsOf(db', t) = Tail(PromptIds(t))
                /\ \A s \in db'.sessions :
                      s.session_id = PromptIds(t)[1] => s.status \in MarkInputs]_vars
    /\ <>NoPrompts

(* The list drained: nothing is listed, at least three sessions carry an
   answer, all three answers were given, and the last answer is in the slot of
   the browser session that gave it. *)
C33_Witness ==
    /\ NoPrompts
    /\ Cardinality({s \in db.sessions : s.status \in MarkInputs}) >= 3
    /\ {s.status : s \in db.sessions} \cap MarkInputs = MarkInputs
    /\ \E a \in Actors : last_attendance_action[a].type = "attendance"

-----------------------------------------------------------------------------
(* SpecPages: the application click by click, from the login form on.  Each
   browser session has its own st.session_state. *)

(* reset_view_state() leaves tracker_view "summary" and both undo entries None. *)
Routed(a, d, ut, la, n) ==
    /\ db' = d
    /\ undo_timetable' = [undo_timetable EXCEPT ![a] = ut]
    /\ last_attendance_action' = [last_attendance_action EXCEPT ![a] = la]
    /\ nav' = [nav EXCEPT ![a] = n]
    /\ UNCHANGED <<today, now, pc, loc>>

(* A run of main() that ends in home_page(u): init_db, then the clone of the
   global tracker is looked up or made. *)
home_run(d, u) == get_or_create_user_clone(init_db(d, today).db, u).db

AtHome(a) == nav[a].user_id # NULL /\ nav[a].active_tracker = NULL

(* The row tracker_page finds for the tracker the browser session has open. *)
OpenRow(a) ==
    IF nav[a].user_id = NULL \/ nav[a].active_tracker = NULL THEN {}
    ELSE get_tracker_for_user(db, nav[a].user_id, nav[a].active_tracker)

InTasks(a, t) == t \in OpenRow(a) /\ nav[a].tracker_view = "tasks"

(* Who logs in where: the first browser session is user 1's, the second is used
   by either user, so the two are two tabs of user 1 or belong to two users. *)
PagesLogins == {<<"a1", 1>>, <<"a2", 1>>, <<"a2", 2>>}

(* "Log In" with a user's name and password. *)
LogIn(a, u) ==
    /\ nav[a].user_id = NULL
    /\ Routed(a, home_run(db, u), NoUndo, NoAttendanceAction,
              [nav[a] EXCEPT !.user_id = u, !.tracker_view = "summary"])

(* "Log Out", a button of home_page. *)
LogOut(a) ==
    /\ AtHome(a)
    /\ Routed(a, init_db(home_run(db, nav[a].user_id), today).db, NoUndo,
              NoAttendanceAction,
              [nav[a] EXCEPT !.user_id = NULL, !.tracker_view = "summary"])

(* "Create" of create_tracker_form. *)
ClickCreate(a, name, range) ==
    /\ AtHome(a)
    /\ LET h == home_run(db, nav[a].user_id)
           r == create_tracker_for_user(h, nav[a].user_id, name, range[1], range[2])
       IN Routed(a, home_run(r.db, nav[a].user_id), undo_timetable[a],
                 last_attendance_action[a], nav[a])

(* "Open" of a tracker that home_page lists. *)
ClickOpen(a, tid) ==
    /\ AtHome(a)
    /\ tid \in list_user_trackers(home_run(db, nav[a].user_id), nav[a].user_id).ret
    /\ Routed(a, home_run(db, nav[a].user_id), NoUndo, NoAttendanceAction,
              [nav[a] EXCEPT !.active_tracker = tid, !.tracker_view = "summary"])

(* "Back to Trackers". *)
ClickBack(a) ==
    /\ OpenRow(a) # {}
    /\ Routed(a, home_run(db, nav[a].user_id), NoUndo, NoAttendanceAction,
              [nav[a] EXCEPT !.active_tracker = NULL, !.tracker_view = "summary"])

(* A run of tracker_page that finds no row: "Tracker not found.", and home. *)
TrackerNotFound(a) ==
    /\ nav[a].user_id # NULL /\ nav[a].active_tracker # NULL
    /\ OpenRow(a) = {}
    /\ Routed(a, home_run(db, nav[a].user_id), undo_timetable[a],
              last_attendance_action[a], [nav[a] EXCEPT !.active_tracker = NULL])

(* "View Tasks": the run that follows renders the sidebar, the prompts and the
   week. *)
ClickViewTasks(a) ==
    \E t \in OpenRow(a) :
        /\ nav[a].tracker_view = "summary"
        /\ Routed(a, render_tasks(db, nav[a].user_id, t, today), undo_timetable[a],
                  last_attendance_action[a], [nav[a] EXCEPT !.tracker_view = "tasks"])

(* "View Summary". *)
ClickViewSummary(a) ==
    \E t \in OpenRow(a) :
        /\ nav[a].tracker_view = "tasks"
        /\ Routed(a, db, undo_timetable[a], last_attendance_action[a],
                  [nav[a] EXCEPT !.tracker_view = "summary"])

(* A click of the tasks view that stays on the page. *)
TaskClick(a, r) ==
    /\ r.outcome \notin {"disabled", "absent"}
    /\ Routed(a, r.db, r.undo_timetable, r.last_attendance_action, nav[a])

(* "Confirm Delete" of the tracker: delete_tracker, undo_timetable None, page
   "home", active_tracker None, and the run of home_page that follows. *)
ClickConfirmDelete(a) ==
    \E t \in OpenRow(a) :
        /\ nav[a].tracker_view = "tasks"
        /\ Routed(a, home_run(delete_tracker(db, t.tracker_id).db, nav[a].user_id),
                  NoUndo, last_attendance_action[a],
                  [nav[a] EXCEPT !.active_tracker = NULL])

InitPages ==
    /\ db \in {x \in InitDbs : x.classes # {}}
    /\ today \in TodayInputs
    /\ pc = [w \in Workers |-> "idle"]
    /\ loc = [w \in Workers |-> NoLocals]
    /\ now = ClockAt1005(today)
    /\ undo_timetable = [a \in Actors |-> NoUndo]
    /\ last_attendance_action = [a \in Actors |-> NoAttendanceAction]
    /\ nav = [a \in Actors |-> NoNav]

NextPages ==
    \/ \E l \in PagesLogins : LogIn(l[1], l[2]) /\ Within(PagesMaxIds)
    \/ \E a \in Actors : LogOut(a) /\ Within(PagesMaxIds)
    \/ \E a \in Actors, name \in NameInputs, range \in RangeInputs :
          ClickCreate(a, name, range) /\ Within(PagesMaxIds)
    \/ \E a \in Actors, tid \in TrackerIds : ClickOpen(a, tid) /\ Within(PagesMaxIds)
    \/ \E a \in Actors : ClickBack(a) /\ Within(PagesMaxIds)
    \/ \E a \in Actors : TrackerNotFound(a) /\ Within(PagesMaxIds)
    \/ \E a \in Actors : ClickViewTasks(a) /\ Within(PagesMaxIds)
    \/ \E a \in Actors : ClickViewSummary(a) /\ Within(PagesMaxIds)
    \/ \E a \in Actors : ClickConfirmDelete(a) /\ Within(PagesMaxIds)
    \/ \E a \in Actors : \E t \in OpenRow(a), form \in AddForms :
          /\ InTasks(a, t)
          /\ TaskClick(a, click_add(db, undo_timetable[a], last_attendance_action[a],
                                    nav[a].user_id, t, form, today))
          /\ Within(PagesMaxIds)
    \/ \E a \in Actors : \E t \in OpenRow(a), form \in EditForms :
          \E c \in ClassesOf(db, t.tracker_id) :
              /\ InTasks(a, t)
              /\ TaskClick(a, click_save(db, undo_timetable[a],
                                         last_attendance_action[a], nav[a].user_id, t,
                                         c.class_id, form, today))
              /\ Within(PagesMaxIds)
    \/ \E a \in Actors : \E t \in OpenRow(a) :
          \E c \in ClassesOf(db, t.tracker_id) :
              /\ InTasks(a, t)
              /\ TaskClick(a, click_delete_class(db, undo_timetable[a],
                                                 last_attendance_action[a],
                                                 nav[a].user_id, t, c.class_id, today))
              /\ Within(PagesMaxIds)
    \/ \E a \in Actors : \E t \in OpenRow(a) :
          /\ InTasks(a, t)
          /\ TaskClick(a, click_confirm_clear(db, undo_timetable[a],
                                              last_attendance_action[a],
                                              nav[a].user_id, t, today))
          /\ Within(PagesMaxIds)
    \/ \E a \in Actors : \E t \in OpenRow(a) :
          /\ InTasks(a, t)
          /\ TaskClick(a, click_undo_timetable(db, undo_timetable[a],
                                               last_attendance_action[a],
                                               nav[a].user_id, t, today))
          /\ Within(PagesMaxIds)
    \/ \E a \in Actors : \E t \in OpenRow(a), sid \in SessionIds, status \in MarkInputs :
          /\ InTasks(a, t)
          /\ TaskClick(a, click_mark(db, undo_timetable[a], last_attendance_action[a],
                                     nav[a].user_id, t, sid, status, today, now))
          /\ Within(PagesMaxIds)
    \/ \E a \in Actors : \E t \in OpenRow(a) :
          /\ InTasks(a, t)
          /\ TaskClick(a, click_undo_attendance(db, undo_timetable[a],
                                                last_attendance_action[a],
                                                nav[a].user_id, t, today))
          /\ Within(PagesMaxIds)
    \/ \E a \in Actors : \E t \in OpenRow(a), sid \in SessionIds, status \in StatusInputs :
          /\ InTasks(a, t)
          /\ TaskClick(a, click_apply_status(db, undo_timetable[a],
                                             last_attendance_action[a],
                                             nav[a].user_id, t, sid, status, today))
          /\ Within(PagesMaxIds)

SpecPages == InitPages /\ [][NextPages]_vars

-----------------------------------------------------------------------------
(* Sessions and the owner of their class's tracker *)

(* The owners of the tracker that class class_id belongs to. *)
OwnersOfClass(d, class_id) ==
    {t.owner_user_id : t \in {x \in d.trackers : \E c \in d.classes :
                                  c.class_id = class_id /\ c.tracker_id = x.tracker_id}}

(* C34: in every state reached through the pages, each session belongs to a
   class of a tracker that is not the global one and is owned by the session's
   user; so no session exists for a class of the global tracker or of a
   tracker of another user. *)
C34_SessionsFollowOwner ==
    \A s \in db.sessions :
        /\ OwnersOfClass(db, s.class_id) = {s.user_id}
        /\ \A c \in ClassesOf(db, GlobalId(db)) : c.class_id # s.class_id

(* Both users have sessions of their own while the global tracker has a class. *)
C34_Witness ==
    /\ \A u \in Users : \E s \in db.sessions : s.user_id = u
    /\ ClassesOf(db, GlobalId(db)) # {}
    /\ \E a \in Actors : nav[a].tracker_view = "tasks" /\ OpenRow(a) # {}

-----------------------------------------------------------------------------
(* What a user's clicks leave alone *)

(* The global tracker and its classes. *)
GlobalPart(d) ==
    <<GlobalRows(d), {c \in d.classes : \E t \in GlobalRows(d) : c.tracker_id = t.tracker_id}>>

(* The trackers of user u, their classes, and the sessions that are u's or of
   one of those classes. *)
UserPart(d, u) ==
    LET ids == {t.tracker_id : t \in OwnedTrackers(d, u)}
        cls == {c \in d.classes : c.tracker_id \in ids}
    IN <<OwnedTrackers(d, u), cls,
         {s \in d.sessions : s.user_id = u \/ \E c \in cls : c.class_id = s.class_id}>>

(* The users logged in in some browser session before or after the step. *)
LoggedIn == {nav[a].user_id : a \in Actors} \ {NULL}

LoggedInNext == {nav'[a].user_id : a \in Actors} \ {NULL}

(* C35: whatever a user does on the pages (add, edit, delete a class, clear
   the timetable, delete a tracker, materialize sessions, change a status,
   undo), the step leaves the global tracker and its classes unchanged and
   changes the trackers, classes and sessions of no user other than the one
   acting. *)
C35_OtherUsersUntouched ==
    [][\/ db' = db
       \/ \E A \in LoggedIn \cup LoggedInNext :
             /\ GlobalPart(db') = GlobalPart(db)
             /\ \A B \in Users \ {A} : UserPart(db', B) = UserPart(db, B)]_vars

(* User 1 is in the tasks view of a tracker whose timetable no longer has the
   classes it was cloned with, while user 2 has a clone with classes and a
   session of its own and the global tracker keeps its classes. *)
C35_Witness ==
    /\ \E a \in Actors : \E t \in OpenRow(a) :
          /\ nav[a].user_id = 1 /\ nav[a].tracker_view = "tasks"
          /\ t.cloned_from # NULL
          /\ Cardinality(ClassesOf(db, t.tracker_id))
                 # Cardinality(ClassesOf(db, GlobalId(db)))
    /\ \E t \in OwnedTrackers(db, 2) : ClassesOf(db, t.tracker_id) # {}
    /\ \E s \in db.sessions : s.user_id = 2
    /\ ClassesOf(db, GlobalId(db)) # {}

-----------------------------------------------------------------------------
(* The pending timetable undo entry and the open tracker *)

(* The trackers an entry refers to: that of the class it names ("add") or of
   the class row it holds ("edit", "delete"). *)
EntryTrackers(d, e) ==
    IF e.type = "add" THEN {c.tracker_id : c \in ClassById(d, e.class_id)}
    ELSE {c.tracker_id : c \in e.old}

(* A pending entry of a browser session with a tracker open is of that tracker. *)
EntryOfOpenTrackerIfOpen ==
    \A a \in Actors :
        (undo_timetable[a] # NoUndo /\ nav[a].active_tracker # NULL)
            => EntryTrackers(db, undo_timetable[a]) \subseteq {nav[a].active_tracker}

(* Login, logout, Open, Back to Trackers and the actor's own deletion of the
   open tracker leave the actor without an entry, and so would Confirm Clear. *)
EntryDroppedOnLeaving ==
    [][\A a \in Actors :
          /\ (\/ nav'[a].user_id # nav[a].user_id
              \/ nav[a].active_tracker = NULL /\ nav'[a].active_tracker # NULL
              \/ /\ OpenRow(a) # {}
                 /\ nav'[a].active_tracker = NULL)
                => undo_timetable'[a] = NoUndo
          /\ \A t \in OpenRow(a) :
                click_confirm_clear(db, undo_timetable[a], last_attendance_action[a],
                                    nav[a].user_id, t, today).undo_timetable = NoUndo]_vars

(* C36: a pending timetable undo entry of a browser session always refers to
   a class of the tracker that the session currently has open: whenever the
   entry is not empty a tracker is open and the entry is of that tracker. *)
C36_UndoEntryOfOpenTracker ==
    \A a \in Actors :
        undo_timetable[a] # NoUndo
            => /\ nav[a].active_tracker # NULL
               /\ EntryTrackers(db, undo_timetable[a]) \subseteq {nav[a].active_tracker}

-----------------------------------------------------------------------------
(* Undo consumes its entry *)

(* The undo buttons clicked once, and once more right after. *)
UndoTimetableTwice(a, t) ==
    LET r == click_undo_timetable(db, undo_timetable[a], last_attendance_action[a],
                                  ActorUser(a), t, today)
    IN <<r, click_undo_timetable(r.db, r.undo_timetable, r.last_attendance_action,
                                  ActorUser(a), t, today)>>

UndoAttendanceTwice(a, t) ==
    LET r == click_undo_attendance(db, undo_timetable[a], last_attendance_action[a],
                                   ActorUser(a), t, today)
    IN <<r, click_undo_attendance(r.db, r.undo_timetable, r.last_attendance_action,
                                   ActorUser(a), t, today)>>

(* C37: a successful timetable undo leaves the timetable entry empty and a
   successful attendance undo leaves the attendance entry empty, each leaving
   the other entry alone; the same undo clicked again right after is
   unavailable and changes nothing; and in every step an empty entry becomes
   pending only through a new mutation (a class just added, a status just
   changed), never through an undo. *)
C37_UndoConsumesEntry ==
    /\ [](\A a \in Actors : \A t \in OwnedTrackers(db, ActorUser(a)) :
            /\ LET r == UndoTimetableTwice(a, t)
               IN (undo_timetable[a] # NoUndo /\ r[1].outcome = "none") =>
                     /\ r[1].undo_timetable = NoUndo
                     /\ r[1].last_attendance_action = last_attendance_action[a]
                     /\ r[2].outcome = "disabled"
                     /\ r[2].db = r[1].db
            /\ LET q == UndoAttendanceTwice(a, t)
               IN last_attendance_action[a] # NoAttendanceAction =>
                     /\ q[1].outcome = "none"
                     /\ q[1].last_attendance_action = NoAttendanceAction
                     /\ q[1].undo_timetable = undo_timetable[a]
                     /\ q[2].outcome = "absent"
                     /\ q[2].db = q[1].db)
    /\ [][\A a \in Actors :
             /\ (undo_timetable[a] = NoUndo /\ undo_timetable'[a] # NoUndo) =>
                   /\ ClassById(db, undo_timetable'[a].class_id) = {}
                   /\ ClassById(db', undo_timetable'[a].class_id) # {}
             /\ (/\ last_attendance_action[a] = NoAttendanceAction
                 /\ last_attendance_action'[a] # NoAttendanceAction) =>
                   \E s \in db.sessions :
                       /\ s.session_id = last_attendance_action'[a].session_id
                       /\ s.status = last_attendance_action'[a].prev_status]_vars

(* One actor has both entries pending while a class that was added is gone
   again, its addition undone, and that actor's timetable entry is empty. *)
C37_Witness ==
    /\ \E a \in Actors :
          undo_timetable[a] # NoUndo /\ last_attendance_action[a] # NoAttendanceAction
    /\ \E a \in Actors : undo_timetable[a] = NoUndo
    /\ \E i \in 1..db.seq.classes : ClassById(db, i) = {}

====
